---- MODULE Spec2Model ----
(***************************************************************************)
(* Shrimpl: the expression evaluator (src/interpreter/eval.rs) and the     *)
(* line-based statement parser (src/parser/mod.rs), as state machines.     *)
(*                                                                         *)
(* Strings are sequences of one-character strings, so that Display,        *)
(* str::parse and the prefix tests of the parser are computed and not      *)
(* assumed.  An f64 is modelled by an exact rational [n, d] (d > 0, lowest *)
(* terms); NaN, the infinities and rounding are outside the model, and     *)
(* str::parse::<f64> is modelled on plain decimal notation (no exponent,   *)
(* no "inf"/"nan" spellings), which is all the strings of the model hold.  *)
(***************************************************************************)
EXTENDS Integers, Sequences, FiniteSets, TLC

VARIABLES
    expr,       \* eval_body_expr: the expression handed in
    bindings,   \* eval_body_expr: vars, the caller's string bindings
    ctrl,       \* the evaluator's position: a node being entered or a result being returned
    stack,      \* the pending eval_expr / eval_args / eval_function activations, innermost first
    config,     \* APP_CONFIG.entries, the process-wide store
    visits,     \* history: how many times eval_expr was entered for each node (by path)
    outcome,    \* history: the last result eval_expr returned for each node (by path)
    result      \* what eval_body_expr returned, once it has

evalVars == <<expr, bindings, ctrl, stack, config, visits, outcome, result>>

VARIABLES
    lines,               \* parse_program: source.lines()
    i,                   \* the index (from 0) of the line the loop is at
    server,              \* Option<ServerDecl>
    endpoints,           \* Vec<EndpointDecl>
    functions,           \* HashMap<String, FunctionDef>
    classes,             \* HashMap<String, ClassDef>
    secrets,             \* Vec<SecretDecl>
    tests,               \* Vec<TestCase>
    models,              \* HashMap<String, ModelDef>
    pending_rate_limit,  \* Option<RateLimit>: the attribute that waits for the next endpoint
    parsed,              \* what parse_program returned, once it has
    stmts                \* history: the statements the loop has read, in order

parseVars == <<lines, i, server, endpoints, functions, classes, secrets, tests, models,
               pending_rate_limit, parsed, stmts>>

VARIABLES
    test_case,    \* run_single_test: the TestCase it runs
    idx,          \* the index (from 0) of the assertion the loop is at
    failures,     \* Vec<String>: the failures pushed so far
    test_result,  \* the TestResult run_single_test returned, once it has
    verdicts      \* history: what eval_body_expr was called with and returned, per assertion

testVars == <<test_case, idx, failures, test_result, verdicts>>

VARIABLES
    threads,   \* the evaluations that run at the same time, one per request being served
    mutex,     \* APP_CONFIG's Mutex: the thread that holds it, or Unlocked
    reads,     \* history: what each config_get / config_has observed, in order
    writes     \* history: the entries config_set inserted, in order

concVars == <<threads, mutex, reads, writes>>

VARIABLES
    checked_program,  \* build_type_diagnostics: program.functions
    types_cfg,        \* config::types_section(): None or Some(TypesConfigFile)
    todo,             \* the functions the loop over program.functions has not reached yet
    diags,            \* Vec<Value>: the diagnostics pushed so far
    type_diagnostics  \* what build_type_diagnostics returned, once it has

typeVars == <<checked_program, types_cfg, todo, diags, type_diagnostics>>

VARIABLES
    endpoint,    \* the EndpointDecl the route serves (ep_here)
    auth,        \* config::auth_section(), with the secret jwt_secret_from_env() finds
    schema,      \* config::validation_schema_for_path(path)
    req,         \* the HttpRequest and its body
    claims_opt,  \* Option<JwtClaims>, once verify_jwt_if_required has returned Ok
    body_text,   \* POST: what validate_and_sanitize_body returned
    handler,     \* where the handler is
    response,    \* the HttpResponse the handler returned, once it has
    trace        \* history: the calls the handler has made, in order

httpVars == <<endpoint, auth, schema, req, claims_opt, body_text, handler, response, trace>>

moreVars == <<concVars, typeVars, httpVars>>

-----------------------------------------------------------------------------
(* Bounds of the model *)
MaxAsserts == 2

\* numeric literals 0..MaxNum occur as operands
MaxNum == 2
\* an If has at most MaxBranches (cond, body) branches
MaxBranches == 2
\* a List / Map literal or an argument list has at most MaxItems entries
MaxItems == 2
\* digits printed after the decimal point of a non-integral number
MaxFracDigits == 6
\* a source has at most MaxLines lines
MaxLines == 3

(* Program constants *)

\* the hard bound of Repeat
MaxRepeatSteps == 10000

-----------------------------------------------------------------------------
(* Characters and decimal notation *)

DigitChars == <<"0", "1", "2", "3", "4", "5", "6", "7", "8", "9">>

IsDigit(c) == \E k \in 1..10 : DigitChars[k] = c

DigitVal(c) == (CHOOSE k \in 1..10 : DigitChars[k] = c) - 1

RECURSIVE NatToStr(_)
NatToStr(k) ==
    IF k < 10 THEN <<DigitChars[k + 1]>>
    ELSE NatToStr(k \div 10) \o <<DigitChars[(k % 10) + 1]>>

IntToStr(k) == IF k < 0 THEN <<"-">> \o NatToStr(-k) ELSE NatToStr(k)

RECURSIVE DigitsToNat(_)
DigitsToNat(s) ==
    IF s = <<>> THEN 0
    ELSE DigitsToNat(SubSeq(s, 1, Len(s) - 1)) * 10 + DigitVal(s[Len(s)])

RECURSIVE Pow10(_)
Pow10(k) == IF k = 0 THEN 1 ELSE 10 * Pow10(k - 1)

-----------------------------------------------------------------------------
(* f64 as exact rationals *)

Abs(k) == IF k < 0 THEN -k ELSE k

RECURSIVE Gcd(_, _)
Gcd(a, b) == IF b = 0 THEN a ELSE Gcd(b, a % b)

\* the rational p/q (q # 0) in lowest terms with a positive denominator
Rat(p, q) ==
    LET g == Gcd(Abs(p), Abs(q))
        s == IF q < 0 THEN -1 ELSE 1
    IN  [n |-> (s * p) \div g, d |-> (s * q) \div g]

RInt(k) == [n |-> k, d |-> 1]

RAdd(a, b) == Rat(a.n * b.d + b.n * a.d, a.d * b.d)
RSub(a, b) == Rat(a.n * b.d - b.n * a.d, a.d * b.d)
RMul(a, b) == Rat(a.n * b.n, a.d * b.d)
RDiv(a, b) == Rat(a.n * b.d, a.d * b.n)
RLt(a, b)  == a.n * b.d < b.n * a.d
RLe(a, b)  == a.n * b.d <= b.n * a.d

\* f64::floor, as an integer (\div rounds towards minus infinity)
RFloor(a) == a.n \div a.d

\* f64::fract() == 0.0
FractIsZero(a) == a.d = 1

RECURSIVE FracDigits(_, _, _)
FracDigits(rem, d, k) ==
    IF rem = 0 \/ k = 0 THEN <<>>
    ELSE <<DigitChars[((rem * 10) \div d) + 1]>> \o FracDigits((rem * 10) % d, d, k - 1)

\* Display of an f64 that is not integral: sign, integer part, '.', fraction
F64ToStr(a) ==
    LET m == Abs(a.n)
    IN  (IF a.n < 0 THEN <<"-">> ELSE <<>>)
        \o NatToStr(m \div a.d) \o <<".">> \o FracDigits(m % a.d, a.d, MaxFracDigits)

\* str::parse::<f64>: [sign] digits ['.' digits], at least one digit
ParseF64(s) ==
    LET signed == s # <<>> /\ s[1] \in {"-", "+"}
        body   == IF signed THEN SubSeq(s, 2, Len(s)) ELSE s
        dots   == {k \in 1..Len(body) : body[k] = "."}
        dot    == IF dots = {} THEN Len(body) + 1 ELSE CHOOSE k \in dots : TRUE
        ip     == SubSeq(body, 1, dot - 1)
        fp     == SubSeq(body, dot + 1, Len(body))
        wellformed ==
            /\ Cardinality(dots) <= 1
            /\ \A k \in 1..Len(ip) : IsDigit(ip[k])
            /\ \A k \in 1..Len(fp) : IsDigit(fp[k])
            /\ Len(ip) + Len(fp) > 0
        mag    == Rat(DigitsToNat(ip) * Pow10(Len(fp)) + DigitsToNat(fp), Pow10(Len(fp)))
    IN  IF wellformed
        THEN [ok |-> TRUE, val |-> IF signed /\ s[1] = "-" THEN RSub(RInt(0), mag) ELSE mag]
        ELSE [ok |-> FALSE, val |-> RInt(0)]

-----------------------------------------------------------------------------
(* Runtime values: enum ValueRuntime *)

Number(a) == [t |-> "Number", n |-> a]
Str(s)    == [t |-> "Str", s |-> s]
Bool(b)   == [t |-> "Bool", b |-> b]

\* impl Display for ValueRuntime
Display(v) ==
    CASE v.t = "Number" -> IF FractIsZero(v.n) THEN IntToStr(v.n.n) ELSE F64ToStr(v.n)
      [] v.t = "Str"    -> v.s
      [] v.t = "Bool"   -> IF v.b THEN <<"t", "r", "u", "e">> ELSE <<"f", "a", "l", "s", "e">>

\* Result<_, String>: an error is the format string and its arguments
Ok(v)         == [ok |-> TRUE, val |-> v]
Err(fmt, arg) == [ok |-> FALSE, err |-> [fmt |-> fmt, args |-> arg]]

\* as_number
as_number(v) ==
    CASE v.t = "Number" -> Ok(v.n)
      [] v.t = "Str"    ->
            LET p == ParseF64(v.s)
            IN  IF p.ok THEN Ok(p.val) ELSE Err("Value '{}' is not a number", <<v.s>>)
      [] v.t = "Bool"   -> Err("Value '{}' is not a number", <<Display(v)>>)

\* as_bool
as_bool(v) ==
    CASE v.t = "Bool"   -> Ok(v.b)
      [] v.t = "Number" -> Ok(v.n # RInt(0))
      [] v.t = "Str"    -> Ok(v.s # <<>>)

BinOps == {"Add", "Sub", "Mul", "Div", "Eq", "Ne", "Lt", "Le", "Gt", "Ge", "And", "Or"}

\* eval_binary
eval_binary(left, op, right) ==
    CASE op = "Add" ->
            IF left.t = "Number" /\ right.t = "Number"
            THEN Ok(Number(RAdd(left.n, right.n)))
            ELSE Ok(Str(Display(left) \o Display(right)))
      [] op \in {"Sub", "Mul", "Div"} ->
            LET a == as_number(left)
                b == as_number(right)
            IN  IF ~a.ok THEN a
                ELSE IF ~b.ok THEN b
                ELSE (CASE op = "Sub" -> Ok(Number(RSub(a.val, b.val)))
                        [] op = "Mul" -> Ok(Number(RMul(a.val, b.val)))
                        [] op = "Div" ->
                             IF b.val = RInt(0) THEN Err("Division by zero", <<>>)
                             ELSE Ok(Number(RDiv(a.val, b.val))))
      [] op = "Eq" ->
            Ok(Bool(CASE left.t = "Number" /\ right.t = "Number" -> left.n = right.n
                      [] left.t = "Bool" /\ right.t = "Bool"     -> left.b = right.b
                      [] OTHER -> Display(left) = Display(right)))
      [] op = "Ne" ->
            Ok(Bool(CASE left.t = "Number" /\ right.t = "Number" -> left.n # right.n
                      [] left.t = "Bool" /\ right.t = "Bool"     -> left.b # right.b
                      [] OTHER -> Display(left) # Display(right)))
      [] op \in {"Lt", "Le", "Gt", "Ge"} ->
            LET a == as_number(left)
                b == as_number(right)
            IN  IF ~a.ok THEN a
                ELSE IF ~b.ok THEN b
                ELSE (CASE op = "Lt" -> Ok(Bool(RLt(a.val, b.val)))
                        [] op = "Le" -> Ok(Bool(RLe(a.val, b.val)))
                        [] op = "Gt" -> Ok(Bool(RLt(b.val, a.val)))
                        [] op = "Ge" -> Ok(Bool(RLe(b.val, a.val))))
      [] op = "And" ->
            LET a == as_bool(left)
                b == as_bool(right)
            IN  IF ~a.ok THEN a ELSE IF ~b.ok THEN b ELSE Ok(Bool(a.val /\ b.val))
      [] op = "Or" ->
            LET a == as_bool(left)
                b == as_bool(right)
            IN  IF ~a.ok THEN a ELSE IF ~b.ok THEN b ELSE Ok(Bool(a.val \/ b.val))

-----------------------------------------------------------------------------
(* The AST: enum Expr, FunctionDef, ClassDef, Program *)

ENumber(a)  == [kind |-> "Number", n |-> a]
EStr(s)     == [kind |-> "Str", s |-> s]
EBool(b)    == [kind |-> "Bool", b |-> b]
EVar(name)  == [kind |-> "Var", name |-> name]
\* items: a sequence of expressions
EList(items) == [kind |-> "List", items |-> items]
\* pairs: a sequence of <<key, expression>>
EMap(pairs)  == [kind |-> "Map", pairs |-> pairs]
EBinary(l, op, r) == [kind |-> "Binary", left |-> l, op |-> op, right |-> r]
ECall(name, args) == [kind |-> "Call", name |-> name, args |-> args]
EMethodCall(c, m, args) ==
    [kind |-> "MethodCall", class_name |-> c, method_name |-> m, args |-> args]
\* branches: a sequence of <<cond, body>>; else_branch: <<>> (None) or <<e>> (Some(e))
EIf(branches, else_branch) == [kind |-> "If", branches |-> branches, else_branch |-> else_branch]
ERepeat(count, body) == [kind |-> "Repeat", count |-> count, body |-> body]
\* catch_var, catch_body, finally_body: <<>> (None) or a one-element sequence (Some)
ETry(try_body, catch_var, catch_body, finally_body) ==
    [kind |-> "Try", try_body |-> try_body, catch_var |-> catch_var,
     catch_body |-> catch_body, finally_body |-> finally_body]

FunctionDef(name, params, body) == [name |-> name, params |-> params, body |-> body]

-----------------------------------------------------------------------------
(* struct Env *)

\* Env::new
Env_new == <<>>

\* Env::set
Env_set(env, name, value) ==
    [k \in (DOMAIN env) \cup {name} |-> IF k = name THEN value ELSE env[k]]

\* Env::get; an Option is <<>> (None) or <<v>> (Some(v))
Env_get(env, name) == IF name \in DOMAIN env THEN <<env[name]>> ELSE <<>>

\* as Env::with_parent, but the callee starts from an empty environment (lexical scope)
Env_with_parent_empty(parent) == Env_new

\* Env::with_parent
Env_with_parent(parent) == parent

\* the loop of eval_function that binds the parameters in order
RECURSIVE BindParams(_, _, _)
BindParams(env, params, vals) ==
    IF params = <<>> \/ vals = <<>> THEN env
    ELSE BindParams(Env_set(env, Head(params), Head(vals)), Tail(params), Tail(vals))

-----------------------------------------------------------------------------
(* The Program the evaluations run against (Program.functions, Program.classes):
     func getx(): x
     func setx(x): getx()
     func outer(y): setx(y)
     func id(a): a
     func add(a, b): a + b
     func dup(a, a): a
     func len(a): a + "!"
     func measure(a): len(a)
     func loud(a): upper(a)
     class C:
       m(a): a + x                                                          *)

n_x     == <<"x">>
n_y     == <<"y">>
n_a     == <<"a">>
n_b     == <<"b">>
n_getx  == <<"g", "e", "t", "x">>
n_setx  == <<"s", "e", "t", "x">>
n_outer == <<"o", "u", "t", "e", "r">>
n_id    == <<"i", "d">>
n_add   == <<"a", "d", "d">>
n_dup   == <<"d", "u", "p">>
n_C     == <<"C">>
n_m     == <<"m">>
n_nope  == <<"n", "o", "p", "e">>
n_measure == <<"m", "e", "a", "s", "u", "r", "e">>
n_loud  == <<"l", "o", "u", "d">>

n_len        == <<"l", "e", "n">>
n_upper      == <<"u", "p", "p", "e", "r">>
n_lower      == <<"l", "o", "w", "e", "r">>
n_sum        == <<"s", "u", "m">>
n_string     == <<"s", "t", "r", "i", "n", "g">>
n_number     == <<"n", "u", "m", "b", "e", "r">>
n_config_set == <<"c", "o", "n", "f", "i", "g", "_", "s", "e", "t">>
n_config_get == <<"c", "o", "n", "f", "i", "g", "_", "g", "e", "t">>
n_config_has == <<"c", "o", "n", "f", "i", "g", "_", "h", "a", "s">>

ProgramFunctions ==
    LET defs == { FunctionDef(n_getx, <<>>, EVar(n_x)),
                  FunctionDef(n_setx, <<n_x>>, ECall(n_getx, <<>>)),
                  FunctionDef(n_outer, <<n_y>>, ECall(n_setx, <<EVar(n_y)>>)),
                  FunctionDef(n_id, <<n_a>>, EVar(n_a)),
                  FunctionDef(n_add, <<n_a, n_b>>, EBinary(EVar(n_a), "Add", EVar(n_b))),
                  FunctionDef(n_dup, <<n_a, n_a>>, EVar(n_a)),
                  FunctionDef(n_len, <<n_a>>, EBinary(EVar(n_a), "Add", EStr(<<"!">>))),
                  FunctionDef(n_measure, <<n_a>>, ECall(n_len, <<EVar(n_a)>>)),
                  FunctionDef(n_loud, <<n_a>>, ECall(n_upper, <<EVar(n_a)>>)) }
    IN  [name \in {f.name : f \in defs} |-> CHOOSE f \in defs : f.name = name]

ProgramClasses ==
    [c \in {n_C} |->
        [name |-> n_C,
         methods |-> [m \in {n_m} |->
                        FunctionDef(n_m, <<n_a>>, EBinary(EVar(n_a), "Add", EVar(n_x)))]]]

Program == [functions |-> ProgramFunctions, classes |-> ProgramClasses]

-----------------------------------------------------------------------------
(* ASCII: code points 32..126 in order ("GRAVE" stands for code point 96,
   which a TLA+ string cannot hold) *)

Ascii ==
    <<" ", "!", "\"", "#", "$", "%", "&", "'", "(", ")", "*", "+", ",", "-", ".", "/",
      "0", "1", "2", "3", "4", "5", "6", "7", "8", "9", ":", ";", "<", "=", ">", "?",
      "@", "A", "B", "C", "D", "E", "F", "G", "H", "I", "J", "K", "L", "M", "N", "O",
      "P", "Q", "R", "S", "T", "U", "V", "W", "X", "Y", "Z", "[", "\\", "]", "^", "_",
      "GRAVE", "a", "b", "c", "d", "e", "f", "g", "h", "i", "j", "k", "l", "m", "n", "o",
      "p", "q", "r", "s", "t", "u", "v", "w", "x", "y", "z", "{", "|", "}", "~">>

\* the code point of a character (tab, 9, is the only one below 32 the model uses)
CharCode(c) ==
    IF c = "\t" THEN 9 ELSE 31 + (CHOOSE k \in 1..Len(Ascii) : Ascii[k] = c)

CharOf(code) == Ascii[code - 31]

\* char::to_ascii_uppercase / to_ascii_lowercase on the ASCII range
ToUpperChar(c) ==
    LET k == CharCode(c) IN IF k >= 97 /\ k <= 122 THEN CharOf(k - 32) ELSE c
ToLowerChar(c) ==
    LET k == CharCode(c) IN IF k >= 65 /\ k <= 90 THEN CharOf(k + 32) ELSE c

\* str::to_uppercase / to_lowercase
to_uppercase(s) == [k \in 1..Len(s) |-> ToUpperChar(s[k])]
to_lowercase(s) == [k \in 1..Len(s) |-> ToLowerChar(s[k])]

\* Ord for str: byte-wise lexicographic order
RECURSIVE StrLt(_, _)
StrLt(a, b) ==
    IF b = <<>> THEN FALSE
    ELSE IF a = <<>> THEN TRUE
    ELSE IF Head(a) = Head(b) THEN StrLt(Tail(a), Tail(b))
    ELSE CharCode(Head(a)) < CharCode(Head(b))

-----------------------------------------------------------------------------
(* serde_json::Value, for the scalars; the text of an array or object is not
   yet parsed back here (from_str answers None for it) *)

JNull      == [j |-> "null"]
JBool(b)   == [j |-> "bool", b |-> b]
JInt(k)    == [j |-> "int", k |-> k]
JFloat(a)  == [j |-> "float", n |-> a]
JString(s) == [j |-> "string", s |-> s]
JArray(xs) == [j |-> "array", items |-> xs]
\* entries: a sequence of <<key, value>> in ascending key order (a BTreeMap)
JObject(entries) == [j |-> "object", entries |-> entries]

JsonWs == {" ", "\t"}

RECURSIVE TrimStartWs(_)
TrimStartWs(s) == IF s # <<>> /\ Head(s) \in JsonWs THEN TrimStartWs(Tail(s)) ELSE s

RECURSIVE TrimEndWs(_)
TrimEndWs(s) ==
    IF s # <<>> /\ s[Len(s)] \in JsonWs THEN TrimEndWs(SubSeq(s, 1, Len(s) - 1)) ELSE s

\* a JSON number: -? (0 | [1-9][0-9]*) ( . [0-9]+ )?
JsonNumber(t) ==
    LET neg  == t # <<>> /\ t[1] = "-"
        body == IF neg THEN Tail(t) ELSE t
        dots == {k \in 1..Len(body) : body[k] = "."}
        dot  == IF dots = {} THEN Len(body) + 1 ELSE CHOOSE k \in dots : TRUE
        ip   == SubSeq(body, 1, dot - 1)
        fp   == SubSeq(body, dot + 1, Len(body))
        wellformed ==
            /\ Cardinality(dots) <= 1
            /\ ip # <<>>
            /\ \A k \in 1..Len(ip) : IsDigit(ip[k])
            /\ (Len(ip) > 1 => ip[1] # "0")
            /\ (dots # {} => fp # <<>>)
            /\ \A k \in 1..Len(fp) : IsDigit(fp[k])
        sign == IF neg THEN -1 ELSE 1
    IN  IF ~wellformed THEN <<>>
        ELSE IF dots = {} THEN <<JInt(sign * DigitsToNat(ip))>>
        ELSE <<JFloat(Rat(sign * (DigitsToNat(ip) * Pow10(Len(fp)) + DigitsToNat(fp)),
                          Pow10(Len(fp))))>>

\* serde_json::from_str::<Value>: None is <<>>, Some(v) is <<v>>
json_from_str(s) ==
    LET t == TrimEndWs(TrimStartWs(s))
    IN  CASE t = <<"n", "u", "l", "l">>      -> <<JNull>>
          [] t = <<"t", "r", "u", "e">>      -> <<JBool(TRUE)>>
          [] t = <<"f", "a", "l", "s", "e">> -> <<JBool(FALSE)>>
          [] Len(t) >= 2 /\ t[1] = "\"" /\ t[Len(t)] = "\""
             /\ \A k \in 2..(Len(t) - 1) : t[k] \notin {"\"", "\\"} ->
                <<JString(SubSeq(t, 2, Len(t) - 1))>>
          [] OTHER -> JsonNumber(t)

RECURSIVE JoinWith(_, _)
JoinWith(parts, sep) ==
    IF parts = <<>> THEN <<>>
    ELSE IF Len(parts) = 1 THEN parts[1]
    ELSE parts[1] \o sep \o JoinWith(Tail(parts), sep)

RECURSIVE json_to_string(_)
\* serde_json::to_string
json_to_string(v) ==
    CASE v.j = "null"   -> <<"n", "u", "l", "l">>
      [] v.j = "bool"   -> IF v.b THEN <<"t", "r", "u", "e">> ELSE <<"f", "a", "l", "s", "e">>
      [] v.j = "int"    -> IntToStr(v.k)
      [] v.j = "float"  -> IF FractIsZero(v.n) THEN IntToStr(v.n.n) \o <<".", "0">>
                           ELSE F64ToStr(v.n)
      [] v.j = "string" -> <<"\"">> \o v.s \o <<"\"">>
      [] v.j = "array"  ->
            <<"[">> \o JoinWith([k \in 1..Len(v.items) |-> json_to_string(v.items[k])], <<",">>)
            \o <<"]">>
      [] v.j = "object" ->
            <<"{">>
            \o JoinWith([k \in 1..Len(v.entries) |->
                            <<"\"">> \o v.entries[k][1] \o <<"\"", ":">>
                            \o json_to_string(v.entries[k][2])], <<",">>)
            \o <<"}">>

\* value_to_json without the attempt to parse a string as JSON
value_to_json_plain(v) ==
    CASE v.t = "Number" -> JFloat(v.n)
      [] v.t = "Bool"   -> JBool(v.b)
      [] v.t = "Str"    -> JString(v.s)

\* value_to_json
value_to_json(v) ==
    CASE v.t = "Number" -> JFloat(v.n)
      [] v.t = "Bool"   -> JBool(v.b)
      [] v.t = "Str"    -> LET p == json_from_str(v.s) IN IF p # <<>> THEN p[1] ELSE JString(v.s)

\* serde_json::Map::insert: replace the value of an existing key, else insert in key order
map_insert(entries, key, value) ==
    IF \E k \in 1..Len(entries) : entries[k][1] = key
    THEN [k \in 1..Len(entries) |-> IF entries[k][1] = key THEN <<key, value>> ELSE entries[k]]
    ELSE LET before == SelectSeq(entries, LAMBDA e : StrLt(e[1], key))
             after  == SelectSeq(entries, LAMBDA e : ~StrLt(e[1], key))
         IN  before \o <<(<<key, value>>)>> \o after

-----------------------------------------------------------------------------
(* Built-ins.  The names modelled are len, upper, lower, number, string, sum,
   config_set, config_get and config_has; the expressions of the model call no
   other built-in of eval_builtin, so every other name they call reaches the
   final arm of the match. *)

s_ok    == <<"o", "k">>

\* as config_insert, but a key that is there keeps its value
config_insert_if_absent(cfg, key, value) ==
    [k \in (DOMAIN cfg) \cup {key} |-> IF k \in DOMAIN cfg THEN cfg[k] ELSE value]

\* AppConfig.entries.insert
config_insert(cfg, key, value) ==
    [k \in (DOMAIN cfg) \cup {key} |-> IF k = key THEN value ELSE cfg[k]]

RECURSIVE sum_loop(_, _)
\* the loop of "sum": total += as_number(v)?
sum_loop(vals, total) ==
    IF vals = <<>> THEN Ok(Number(total))
    ELSE LET a == as_number(Head(vals))
         IN  IF ~a.ok THEN a ELSE sum_loop(Tail(vals), RAdd(total, a.val))

BuiltinOut(res, cfg) == [res |-> res, config |-> cfg]

\* eval_builtin, after eval_args: the match on the name
eval_builtin(name, vals, cfg) ==
    CASE name = n_len ->
            IF Len(vals) # 1 THEN BuiltinOut(Err("len(x) expects exactly 1 argument", <<>>), cfg)
            ELSE BuiltinOut(Ok(Number(RInt(Len(Display(vals[1]))))), cfg)
      [] name = n_upper ->
            IF Len(vals) # 1 THEN BuiltinOut(Err("upper(x) expects exactly 1 argument", <<>>), cfg)
            ELSE BuiltinOut(Ok(Str(to_uppercase(Display(vals[1])))), cfg)
      [] name = n_lower ->
            IF Len(vals) # 1 THEN BuiltinOut(Err("lower(x) expects exactly 1 argument", <<>>), cfg)
            ELSE BuiltinOut(Ok(Str(to_lowercase(Display(vals[1])))), cfg)
      [] name = n_number ->
            IF Len(vals) # 1 THEN BuiltinOut(Err("number(x) expects exactly 1 argument", <<>>), cfg)
            ELSE LET a == as_number(vals[1])
                 IN  BuiltinOut(IF a.ok THEN Ok(Number(a.val)) ELSE a, cfg)
      [] name = n_string ->
            IF Len(vals) # 1 THEN BuiltinOut(Err("string(x) expects exactly 1 argument", <<>>), cfg)
            ELSE BuiltinOut(Ok(Str(Display(vals[1]))), cfg)
      [] name = n_sum ->
            IF vals = <<>> THEN BuiltinOut(Err("sum(...) expects at least 1 argument", <<>>), cfg)
            ELSE BuiltinOut(sum_loop(vals, RInt(0)), cfg)
      [] name = n_config_set ->
            IF Len(vals) # 2
            THEN BuiltinOut(Err("config_set(key, value) expects 2 arguments", <<>>), cfg)
            ELSE BuiltinOut(Ok(Str(s_ok)), config_insert(cfg, Display(vals[1]), vals[2]))
      [] name = n_config_get ->
            IF vals = <<>> \/ Len(vals) > 2
            THEN BuiltinOut(Err("config_get(key, [default]) expects 1 or 2 arguments", <<>>), cfg)
            ELSE LET key == Display(vals[1])
                 IN  IF key \in DOMAIN cfg THEN BuiltinOut(Ok(cfg[key]), cfg)
                     ELSE IF Len(vals) = 2 THEN BuiltinOut(Ok(vals[2]), cfg)
                     ELSE BuiltinOut(Ok(Str(<<>>)), cfg)
      [] name = n_config_has ->
            IF Len(vals) # 1
            THEN BuiltinOut(Err("config_has(key) expects exactly 1 argument", <<>>), cfg)
            ELSE BuiltinOut(Ok(Bool(Display(vals[1]) \in DOMAIN cfg)), cfg)
      [] OTHER -> BuiltinOut(Err("Undefined function '{}'", <<name>>), cfg)

-----------------------------------------------------------------------------
(* The evaluator as a machine.  ctrl is one of
     Enter(e, env, p)  eval_expr is being entered for node e (at path p) in env
     Return(r, p)      eval_expr for the node at p has returned r to its caller
     AtLoop            control is at the head of the loop of the innermost activation
     Finished          eval_body_expr has returned
   and stack holds the activations that wait for a callee, innermost first.
   A path names a node: the children of a node are numbered
     Binary: 1 left, 2 right        Repeat: 1 count, 2 body
     Call / MethodCall: k the k-th argument, 0 the body of the callee
     List / Map: k the k-th item    If: 2k-1 / 2k cond / body of branch k, then else *)

Enter(e, env, p) == [mode |-> "eval", expr |-> e, env |-> env, path |-> p]
Return(r, p)     == [mode |-> "ret", res |-> r, path |-> p]
AtLoop           == [mode |-> "loop"]
Finished         == [mode |-> "done"]

\* what a step yields: the new position, the new stack, the new store
St(c, st, cfg) == [ctrl |-> c, stack |-> st, config |-> cfg]

Push(f, st) == <<f>> \o st

\* eval_expr: Expr::Number, Expr::Str, Expr::Bool
eval_literal(c, st, cfg) ==
    LET e == c.expr
        v == CASE e.kind = "Number" -> Number(e.n)
               [] e.kind = "Str"    -> Str(e.s)
               [] e.kind = "Bool"   -> Bool(e.b)
    IN  St(Return(Ok(v), c.path), st, cfg)

\* eval_expr: Expr::Var
eval_var(c, st, cfg) ==
    LET o == Env_get(c.env, c.expr.name)
    IN  St(Return(IF o # <<>> THEN Ok(o[1])
                  ELSE Err("Unknown variable '{}'", <<c.expr.name>>), c.path), st, cfg)

\* eval_expr: Expr::Binary, up to the call that evaluates the left operand
eval_binary_enter(c, st, cfg) ==
    St(Enter(c.expr.left, c.env, Append(c.path, 1)),
       Push([k |-> "BinaryLeft", op |-> c.expr.op, right |-> c.expr.right,
             env |-> c.env, path |-> c.path], st),
       cfg)

\* as eval_binary_left_done, but And / Or return at once when lv decides the result
eval_binary_left_done_shortcircuit(lv, st, cfg) ==
    LET f == Head(st)
        a == as_bool(lv)
    IN  IF f.op = "And" /\ ~a.val THEN St(Return(Ok(Bool(FALSE)), f.path), Tail(st), cfg)
        ELSE IF f.op = "Or" /\ a.val THEN St(Return(Ok(Bool(TRUE)), f.path), Tail(st), cfg)
        ELSE St(Enter(f.right, f.env, Append(f.path, 2)),
                Push([k |-> "BinaryRight", op |-> f.op, lv |-> lv, path |-> f.path], Tail(st)),
                cfg)

\* eval_expr: Expr::Binary, lv is there: the call that evaluates the right operand
eval_binary_left_done(lv, st, cfg) ==
    LET f == Head(st)
    IN  St(Enter(f.right, f.env, Append(f.path, 2)),
           Push([k |-> "BinaryRight", op |-> f.op, lv |-> lv, path |-> f.path], Tail(st)),
           cfg)

\* as eval_binary_right_done, but == / != of values of different types never match
eval_binary_right_done_strict_eq(rv, st, cfg) ==
    LET f == Head(st)
    IN  St(Return(IF f.op \in {"Eq", "Ne"} /\ f.lv.t # rv.t
                  THEN Ok(Bool(f.op = "Ne"))
                  ELSE eval_binary(f.lv, f.op, rv), f.path), Tail(st), cfg)

\* as eval_binary_right_done, but + adds whenever both operands coerce to numbers
eval_binary_right_done_add_coerces(rv, st, cfg) ==
    LET f == Head(st)
    IN  St(Return(IF f.op = "Add" /\ as_number(f.lv).ok /\ as_number(rv).ok
                  THEN Ok(Number(RAdd(as_number(f.lv).val, as_number(rv).val)))
                  ELSE eval_binary(f.lv, f.op, rv), f.path), Tail(st), cfg)

\* eval_expr: Expr::Binary, rv is there: eval_binary(&lv, op, &rv)
eval_binary_right_done(rv, st, cfg) ==
    LET f == Head(st)
    IN  St(Return(eval_binary(f.lv, f.op, rv), f.path), Tail(st), cfg)

\* the activation of eval_args, together with what its caller does with the values
ArgsFrame(target, name, func, args, env, p) ==
    [k |-> "Args", target |-> target, name |-> name, func |-> func,
     out |-> <<>>, rest |-> args, idx |-> 1, env |-> env, path |-> p]

\* eval_call, were the name looked up among the built-ins before the user functions
eval_call_builtin_first(c, st, cfg) ==
    LET e == c.expr
    IN  IF e.name \in DOMAIN Program.functions
           /\ eval_builtin(e.name, <<>>, cfg).res = Err("Undefined function '{}'", <<e.name>>)
        THEN St(AtLoop,
                Push(ArgsFrame("function", e.name, Program.functions[e.name],
                               e.args, c.env, c.path), st),
                cfg)
        ELSE St(AtLoop,
                Push(ArgsFrame("builtin", e.name, FunctionDef(e.name, <<>>, EStr(<<>>)),
                               e.args, c.env, c.path), st),
                cfg)

\* eval_expr: Expr::Call: a user function first, a built-in otherwise
eval_call(c, st, cfg) ==
    LET e == c.expr
    IN  IF e.name \in DOMAIN Program.functions
        THEN St(AtLoop,
                Push(ArgsFrame("function", e.name, Program.functions[e.name],
                               e.args, c.env, c.path), st),
                cfg)
        ELSE St(AtLoop,
                Push(ArgsFrame("builtin", e.name, FunctionDef(e.name, <<>>, EStr(<<>>)),
                               e.args, c.env, c.path), st),
                cfg)

\* eval_expr: Expr::MethodCall: the class, then the method, then the arguments
eval_method_call(c, st, cfg) ==
    LET e == c.expr
    IN  IF e.class_name \notin DOMAIN Program.classes
        THEN St(Return(Err("Undefined class '{}'", <<e.class_name>>), c.path), st, cfg)
        ELSE IF e.method_name \notin DOMAIN Program.classes[e.class_name].methods
        THEN St(Return(Err("Class '{}' has no method '{}'", <<e.class_name, e.method_name>>),
                       c.path), st, cfg)
        ELSE St(AtLoop,
                Push(ArgsFrame("function", e.method_name,
                               Program.classes[e.class_name].methods[e.method_name],
                               e.args, c.env, c.path), st),
                cfg)

\* as eval_function, were the parameters set in the Env of the caller itself
\* (every activation that waits with that Env sees them afterwards)
eval_function_in_caller_env(func, arg_vals, parent_env, p, st, cfg) ==
    IF Len(arg_vals) # Len(func.params)
    THEN St(Return(Err("Function '{}' expected {} arguments, got {}",
                       <<func.name, NatToStr(Len(func.params)), NatToStr(Len(arg_vals))>>), p),
            st, cfg)
    ELSE LET env == BindParams(parent_env, func.params, arg_vals)
             shared == [k \in 1..Len(st) |->
                          IF "env" \in DOMAIN st[k] /\ st[k].env = parent_env
                          THEN [st[k] EXCEPT !.env = env] ELSE st[k]]
         IN  St(Enter(func.body, env, Append(p, 0)),
                Push([k |-> "Function", func |-> func, arg_vals |-> arg_vals,
                      parent_env |-> parent_env, path |-> p], shared),
                cfg)

\* eval_function without the comparison of the two lengths (zip stops at the shorter)
eval_function_unchecked(func, arg_vals, parent_env, p, st, cfg) ==
    LET env == BindParams(Env_with_parent(parent_env), func.params, arg_vals)
    IN  St(Enter(func.body, env, Append(p, 0)),
           Push([k |-> "Function", func |-> func, arg_vals |-> arg_vals,
                 parent_env |-> parent_env, path |-> p], st),
           cfg)

\* eval_function
eval_function(func, arg_vals, parent_env, p, st, cfg) ==
    IF Len(arg_vals) # Len(func.params)
    THEN St(Return(Err("Function '{}' expected {} arguments, got {}",
                       <<func.name, NatToStr(Len(func.params)), NatToStr(Len(arg_vals))>>), p),
            st, cfg)
    ELSE LET env == BindParams(Env_with_parent(parent_env), func.params, arg_vals)
         IN  St(Enter(func.body, env, Append(p, 0)),
                Push([k |-> "Function", func |-> func, arg_vals |-> arg_vals,
                      parent_env |-> parent_env, path |-> p], st),
                cfg)

\* eval_args: the head of `for a in args`; after the last one the caller goes on
eval_args_next(st, cfg) ==
    LET f == Head(st)
    IN  IF f.rest # <<>>
        THEN St(Enter(Head(f.rest), f.env, Append(f.path, f.idx)),
                Push([f EXCEPT !.rest = Tail(@), !.idx = @ + 1], Tail(st)),
                cfg)
        ELSE IF f.target = "function"
        THEN eval_function(f.func, f.out, f.env, f.path, Tail(st), cfg)
        ELSE LET b == eval_builtin(f.name, f.out, cfg)
             IN  St(Return(b.res, f.path), Tail(st), b.config)

\* eval_args: out.push(eval_expr(a, ...)?)
eval_args_push(v, st, cfg) ==
    St(AtLoop, Push([Head(st) EXCEPT !.out = Append(@, v)], Tail(st)), cfg)

\* eval_function: the body has returned, and so does the call
eval_function_done(r, st, cfg) == St(Return(r, Head(st).path), Tail(st), cfg)

\* eval_expr: Expr::List
eval_list(c, st, cfg) ==
    St(AtLoop,
       Push([k |-> "List", arr |-> <<>>, rest |-> c.expr.items, idx |-> 1,
             env |-> c.env, path |-> c.path], st),
       cfg)

\* Expr::List: the head of `for item in items`; after the last one, serialize
eval_list_next(st, cfg) ==
    LET f == Head(st)
    IN  IF f.rest # <<>>
        THEN St(Enter(Head(f.rest), f.env, Append(f.path, f.idx)),
                Push([f EXCEPT !.rest = Tail(@), !.idx = @ + 1], Tail(st)), cfg)
        ELSE St(Return(Ok(Str(json_to_string(JArray(f.arr)))), f.path), Tail(st), cfg)

\* Expr::List: arr.push(value_to_json(&v))
eval_list_push(v, st, cfg) ==
    St(AtLoop, Push([Head(st) EXCEPT !.arr = Append(@, value_to_json(v))], Tail(st)), cfg)

\* eval_expr: Expr::Map
eval_map(c, st, cfg) ==
    St(AtLoop,
       Push([k |-> "Map", obj |-> <<>>, rest |-> c.expr.pairs, idx |-> 1, key |-> <<>>,
             env |-> c.env, path |-> c.path], st),
       cfg)

\* Expr::Map: the head of `for (k, vexpr) in pairs`; after the last one, serialize
eval_map_next(st, cfg) ==
    LET f == Head(st)
    IN  IF f.rest # <<>>
        THEN St(Enter(Head(f.rest)[2], f.env, Append(f.path, f.idx)),
                Push([f EXCEPT !.rest = Tail(@), !.idx = @ + 1, !.key = Head(f.rest)[1]],
                     Tail(st)),
                cfg)
        ELSE St(Return(Ok(Str(json_to_string(JObject(f.obj)))), f.path), Tail(st), cfg)

\* Expr::Map: obj.insert(k.clone(), value_to_json(&v))
eval_map_insert(v, st, cfg) ==
    LET f == Head(st)
    IN  St(AtLoop,
           Push([f EXCEPT !.obj = map_insert(@, f.key, value_to_json(v))], Tail(st)), cfg)

\* eval_expr: Expr::If
eval_if(c, st, cfg) ==
    St(AtLoop,
       Push([k |-> "If", phase |-> "cond", rest |-> c.expr.branches, idx |-> 1,
             else_branch |-> c.expr.else_branch, env |-> c.env, path |-> c.path], st),
       cfg)

\* Expr::If: the head of `for (cond_expr, body_expr) in branches`, and what follows the loop
eval_if_next(st, cfg) ==
    LET f == Head(st)
    IN  IF f.rest # <<>>
        THEN St(Enter(Head(f.rest)[1], f.env, Append(f.path, 2 * f.idx - 1)), st, cfg)
        ELSE IF f.else_branch # <<>>
        THEN St(Enter(f.else_branch[1], f.env, Append(f.path, 2 * f.idx - 1)),
                Push([f EXCEPT !.phase = "body"], Tail(st)), cfg)
        ELSE St(Return(Ok(Str(<<>>)), f.path), Tail(st), cfg)

\* as eval_if_cond_done, but a falsy condition ends the If instead of moving to the next branch
eval_if_cond_done_first_only(cond_val, st, cfg) ==
    LET f == Head(st)
        b == as_bool(cond_val)
    IN  IF ~b.ok THEN St(Return(b, f.path), Tail(st), cfg)
        ELSE IF b.val
        THEN St(Enter(Head(f.rest)[2], f.env, Append(f.path, 2 * f.idx)),
                Push([f EXCEPT !.phase = "body"], Tail(st)), cfg)
        ELSE St(Return(Ok(Str(<<>>)), f.path), Tail(st), cfg)

\* Expr::If: if as_bool(&cond_val)? { return eval_expr(body_expr, ...) }
eval_if_cond_done(cond_val, st, cfg) ==
    LET f == Head(st)
        b == as_bool(cond_val)
    IN  IF ~b.ok THEN St(Return(b, f.path), Tail(st), cfg)
        ELSE IF b.val
        THEN St(Enter(Head(f.rest)[2], f.env, Append(f.path, 2 * f.idx)),
                Push([f EXCEPT !.phase = "body"], Tail(st)), cfg)
        ELSE St(AtLoop, Push([f EXCEPT !.rest = Tail(@), !.idx = @ + 1], Tail(st)), cfg)

\* Expr::If: the chosen body (or the else body) has returned, and so does the If
eval_if_body_done(r, st, cfg) == St(Return(r, Head(st).path), Tail(st), cfg)

\* eval_expr: Expr::Repeat, up to the call that evaluates count
eval_repeat(c, st, cfg) ==
    St(Enter(c.expr.count, c.env, Append(c.path, 1)),
       Push([k |-> "Repeat", phase |-> "count", body |-> c.expr.body, n |-> RInt(0),
             steps |-> 0, i |-> 0, last |-> Str(<<>>), env |-> c.env, path |-> c.path], st),
       cfg)

\* as eval_repeat_count_done, but the bound is checked with >= instead of >
eval_repeat_count_done_inclusive(count_val, st, cfg) ==
    LET f == Head(st)
        a == as_number(count_val)
    IN  IF ~a.ok THEN St(Return(a, f.path), Tail(st), cfg)
        ELSE IF RLt(a.val, RInt(0))
        THEN St(Return(Err("repeat N times: N must be non-negative", <<>>), f.path),
                Tail(st), cfg)
        ELSE IF RFloor(a.val) >= MaxRepeatSteps
        THEN St(Return(Err("repeat N times: N is too large (max 10_000)", <<>>), f.path),
                Tail(st), cfg)
        ELSE St(AtLoop,
                Push([f EXCEPT !.phase = "body", !.n = a.val, !.steps = RFloor(a.val)],
                     Tail(st)),
                cfg)

\* Expr::Repeat: as_number, the two checks, and `let mut last`
eval_repeat_count_done(count_val, st, cfg) ==
    LET f == Head(st)
        a == as_number(count_val)
    IN  IF ~a.ok THEN St(Return(a, f.path), Tail(st), cfg)
        ELSE IF RLt(a.val, RInt(0))
        THEN St(Return(Err("repeat N times: N must be non-negative", <<>>), f.path),
                Tail(st), cfg)
        ELSE IF RFloor(a.val) > MaxRepeatSteps
        THEN St(Return(Err("repeat N times: N is too large (max 10_000)", <<>>), f.path),
                Tail(st), cfg)
        ELSE St(AtLoop,
                Push([f EXCEPT !.phase = "body", !.n = a.val, !.steps = RFloor(a.val)],
                     Tail(st)),
                cfg)

\* as eval_repeat_next, but the range is 0..=steps
eval_repeat_next_inclusive(st, cfg) ==
    LET f == Head(st)
    IN  IF f.i <= f.steps
        THEN St(Enter(f.body, f.env, Append(f.path, 2)),
                Push([f EXCEPT !.i = @ + 1], Tail(st)), cfg)
        ELSE St(Return(Ok(f.last), f.path), Tail(st), cfg)

\* as eval_repeat_next, but the loop is never left: after the last iteration control
\* stays at its head
eval_repeat_next_never_leaves(st, cfg) ==
    LET f == Head(st)
    IN  IF f.i < f.steps
        THEN St(Enter(f.body, f.env, Append(f.path, 2)),
                Push([f EXCEPT !.i = @ + 1], Tail(st)), cfg)
        ELSE St(AtLoop, st, cfg)

\* Expr::Repeat: the head of `for _ in 0..steps`, and Ok(last) after it
eval_repeat_next(st, cfg) ==
    LET f == Head(st)
    IN  IF f.i < f.steps
        THEN St(Enter(f.body, f.env, Append(f.path, 2)),
                Push([f EXCEPT !.i = @ + 1], Tail(st)), cfg)
        ELSE St(Return(Ok(f.last), f.path), Tail(st), cfg)

\* Expr::Repeat: last = eval_expr(body, ...)?
eval_repeat_body_done(v, st, cfg) ==
    St(AtLoop, Push([Head(st) EXCEPT !.last = v], Tail(st)), cfg)

\* as propagate_error, but a List drops a failed item and goes on with the next one
propagate_error_list_skips(r, st, cfg) ==
    IF Head(st).k = "List" THEN St(AtLoop, st, cfg)
    ELSE St(Return(r, Head(st).path), Tail(st), cfg)

\* as propagate_error, were the store emptied when an error passes
propagate_error_rollback(r, st, cfg) == St(Return(r, Head(st).path), Tail(st), <<>>)

\* the `?` of an activation whose callee returned Err: it returns that Err
propagate_error(r, st, cfg) == St(Return(r, Head(st).path), Tail(st), cfg)

\* eval_body_expr: the seeding of the environment from vars
seed_env(vars) == [k \in DOMAIN vars |-> Str(vars[k])]

\* eval_body_expr: Ok(value.to_string()), or the Err of eval_expr
body_result(r) == IF r.ok THEN Ok(Display(r.val)) ELSE r

-----------------------------------------------------------------------------
(* The expressions, bindings and stores the evaluations start from *)

Num(k)  == ENumber(RInt(k))
s_k     == <<"k">>
n_e     == <<"e">>

DivZero   == EBinary(Num(1), "Div", Num(0))
DivZeroEq == EBinary(DivZero, "Eq", Num(0))

\* config_set("k", v)
SetK(v) == ECall(n_config_set, <<EStr(s_k), v>>)
\* config_set("k", config_get("k", 0) + 1)
Incr == SetK(EBinary(ECall(n_config_get, <<EStr(s_k), Num(0)>>), "Add", Num(1)))

Nums == {Num(k) : k \in 0..MaxNum}

Operands ==
    Nums \cup {EStr(<<>>), EStr(<<"a">>), EBool(TRUE), EBool(FALSE),
               EVar(n_x), EVar(n_y), DivZero, DivZeroEq}

BinaryExprs ==
    {EBinary(l, op, r) : l \in Operands, op \in BinOps, r \in Operands}
    \cup {EBinary(SetK(Num(1)), op, SetK(Num(2))) : op \in BinOps}
    \cup {EBinary(SetK(Num(1)), op, DivZero) : op \in BinOps}

CallExprs ==
    { ECall(n_getx, <<>>),
      ECall(n_setx, <<Num(1)>>),
      ECall(n_setx, <<EStr(<<"a">>)>>),
      ECall(n_outer, <<Num(2)>>),
      ECall(n_id, <<EVar(n_x)>>),
      ECall(n_id, <<>>),
      ECall(n_id, <<Num(1), EVar(n_y)>>),
      ECall(n_id, <<Num(1), Num(2)>>),
      ECall(n_add, <<Num(1), EVar(n_x)>>),
      ECall(n_add, <<DivZero, EVar(n_y)>>),
      ECall(n_dup, <<Num(1), Num(2)>>),
      ECall(n_nope, <<>>),
      ECall(n_nope, <<DivZero>>),
      EMethodCall(n_C, n_m, <<Num(1)>>),
      EMethodCall(n_C, n_m, <<>>),
      EMethodCall(n_C, n_nope, <<DivZero>>),
      EMethodCall(n_nope, n_m, <<DivZero>>),
      EBinary(ECall(n_getx, <<>>), "Add", ECall(n_setx, <<EStr(<<"q">>)>>)),
      EBinary(ECall(n_setx, <<EStr(<<"q">>)>>), "Add", ECall(n_getx, <<>>)),
      EBinary(ECall(n_id, <<Num(1)>>), "Add", EVar(n_a)),
      ECall(n_len, <<EStr(<<"a", "b">>)>>),
      ECall(n_len, <<>>),
      ECall(n_measure, <<EStr(<<"a", "b">>)>>),
      ECall(n_loud, <<EStr(<<"a", "B">>)>>),
      ECall(n_upper, <<EStr(<<"a", "B">>)>>),
      ECall(n_lower, <<EStr(<<"a", "B">>)>>),
      ECall(n_string, <<Num(1)>>),
      ECall(n_number, <<EStr(<<"2", ".", "5">>)>>),
      ECall(n_number, <<EStr(<<"a">>)>>),
      ECall(n_config_get, <<EStr(s_k)>>),
      ECall(n_config_get, <<EStr(s_k), Num(0)>>),
      ECall(n_config_get, <<>>),
      ECall(n_config_has, <<EStr(s_k)>>),
      ECall(n_config_set, <<EStr(s_k)>>),
      Incr }

Items == {Num(1), EStr(<<"2">>), EStr(<<"a">>), DivZero, EVar(n_y)}

RECURSIVE SeqsUpTo(_, _)
\* the sequences over S of length at most k
SeqsUpTo(S, k) ==
    IF k = 0 THEN {<<>>}
    ELSE LET shorter == SeqsUpTo(S, k - 1)
         IN  shorter \cup {Append(q, x) : q \in shorter, x \in S}

ListExprs == {EList(q) : q \in SeqsUpTo(Items, MaxItems)}

MapExprs == {EMap(q) : q \in SeqsUpTo({<<key, v>> : key \in {n_a, n_b}, v \in Items}, MaxItems)}

SumExprs == {ECall(n_sum, q) : q \in SeqsUpTo(Items, MaxItems)}

Conds    == {EBool(FALSE), EBool(TRUE), Num(0), EStr(<<>>), EStr(<<"a">>), EVar(n_x), DivZero}
IfBodies == {Num(1), EVar(n_y)}
Elses    == {<<>>, <<Num(2)>>, <<DivZero>>}

IfExprs ==
    {EIf(q, el) : q \in SeqsUpTo({<<c, b>> : c \in Conds, b \in IfBodies}, MaxBranches) \ {<<>>},
                  el \in Elses}

Counts ==
    Nums \cup {Num(-1), Num(3), ENumber(Rat(5, 2)), ENumber(Rat(-1, 2)),
               EStr(<<"2">>), EStr(<<"-", "1">>), EStr(<<"a">>), EBool(TRUE),
               EVar(n_x), DivZero, EBinary(Num(0), "Sub", Num(1)), SetK(Num(2))}

RepeatBodies == {Num(1), EVar(n_x), EVar(n_y), Incr}

RepeatExprs == {ERepeat(c, b) : c \in Counts, b \in RepeatBodies}

\* counts at and around the bound of Repeat
BigRepeatExprs ==
    { ERepeat(Num(MaxRepeatSteps), Incr),
      ERepeat(ENumber(Rat(2 * MaxRepeatSteps + 1, 2)), Num(1)),
      ERepeat(Num(MaxRepeatSteps + 1), Incr),
      ERepeat(EStr(NatToStr(MaxRepeatSteps + 1)), Incr),
      EBinary(ERepeat(Num(MaxRepeatSteps + 1), Incr), "Or", Incr) }

NestedExprs ==
    { EIf(<< <<EVar(n_x), ERepeat(Num(2), Incr)>> >>, <<ECall(n_getx, <<>>)>>),
      ERepeat(Num(2), EIf(<< <<ECall(n_config_has, <<EStr(s_k)>>), EStr(<<"s">>)>> >>,
                          <<SetK(Num(1))>>)),
      EList(<<ERepeat(Num(2), Incr), DivZero, Incr>>),
      EBinary(EIf(<< <<EBool(FALSE), Num(1)>> >>, <<>>), "Add", ERepeat(Num(0), Num(5))),
      ECall(n_add, <<ERepeat(Num(2), Incr), EIf(<< <<DivZero, Num(1)>> >>, <<>>)>>),
      ERepeat(ERepeat(Num(2), Num(2)), ERepeat(Num(-1), Incr)),
      ECall(n_id, <<ERepeat(Num(3), EStr(<<"x">>))>>) }

TryExprs ==
    { ETry(DivZero, <<n_e>>, <<EVar(n_e)>>, <<>>),
      ETry(DivZero, <<>>, <<Num(1)>>, <<>>),
      ETry(DivZero, <<>>, <<>>, <<>>),
      ETry(Num(1), <<n_e>>, <<Incr>>, <<>>),
      EBinary(Num(1), "Add", ETry(DivZero, <<n_e>>, <<EVar(n_e)>>, <<>>)) }

SmallExprs ==
    Operands \cup BinaryExprs \cup CallExprs \cup ListExprs \cup MapExprs \cup SumExprs
    \cup IfExprs \cup RepeatExprs \cup NestedExprs \cup TryExprs

\* == and != over operands of every pair of types
CompareOperands ==
    {Num(1), EStr(<<"1">>), EStr(<<"1", ".", "0">>), EBool(TRUE), EStr(<<"t", "r", "u", "e">>),
     EBool(FALSE)}

CompareExprs ==
    {EBinary(l, op, r) : l \in CompareOperands, op \in {"Eq", "Ne"}, r \in CompareOperands}

\* the arithmetic operators over the bindings x = "2" and y = "3"
ArithOperands == {EVar(n_x), EVar(n_y), Num(2), EStr(<<"a">>), EBool(TRUE)}

ArithExprs ==
    {EBinary(l, op, r) : l \in ArithOperands, op \in {"Add", "Sub", "Mul", "Div"},
                         r \in ArithOperands}

TwoThree == [v \in {n_x, n_y} |-> IF v = n_x THEN <<"2">> ELSE <<"3">>]

NoBindings == <<>>

BindingSets ==
    {NoBindings, [v \in {n_x} |-> <<"b">>], [v \in {n_x} |-> <<"2">>]}

EmptyConfig == <<>>

ConfigSets == {EmptyConfig, [key \in {s_k} |-> Number(RInt(5))]}

-----------------------------------------------------------------------------
(* Actions of the evaluator *)

\* history: one more entry of eval_expr for the node at p
Bump(v, p) ==
    [q \in (DOMAIN v) \cup {p} |-> IF q = p THEN (IF p \in DOMAIN v THEN v[p] + 1 ELSE 1) ELSE v[q]]

\* history: the node at p returned r
Put(o, p, r) == [q \in (DOMAIN o) \cup {p} |-> IF q = p THEN r ELSE o[q]]

InitEval ==
    /\ \/ expr \in SmallExprs /\ bindings \in BindingSets /\ config \in ConfigSets
       \/ expr \in BigRepeatExprs /\ bindings = NoBindings /\ config = EmptyConfig
       \/ expr \in CompareExprs \cup ArithExprs /\ bindings = TwoThree /\ config = EmptyConfig
    /\ ctrl = Enter(expr, seed_env(bindings), <<>>)
    /\ stack = <<>>
    /\ visits = [p \in {<<>>} |-> 1]
    /\ outcome = <<>>
    /\ result = <<>>

Apply(r) ==
    /\ ctrl' = r.ctrl
    /\ stack' = r.stack
    /\ config' = r.config
    /\ visits' = IF r.ctrl.mode = "eval" THEN Bump(visits, r.ctrl.path) ELSE visits
    /\ outcome' = IF r.ctrl.mode = "ret" THEN Put(outcome, r.ctrl.path, r.ctrl.res) ELSE outcome
    /\ UNCHANGED <<expr, bindings, result, parseVars, testVars, moreVars>>

Entering(kinds) == ctrl.mode = "eval" /\ ctrl.expr.kind \in kinds
TopIs(kind)     == stack # <<>> /\ Head(stack).k = kind
ReturnsOk       == ctrl.mode = "ret" /\ ctrl.res.ok
ReturnsErr      == ctrl.mode = "ret" /\ ~ctrl.res.ok
LoopOf(kind)    == ctrl.mode = "loop" /\ TopIs(kind)

EvalLiteral    == Entering({"Number", "Str", "Bool"}) /\ Apply(eval_literal(ctrl, stack, config))
EvalVar        == Entering({"Var"}) /\ Apply(eval_var(ctrl, stack, config))
EvalBinary     == Entering({"Binary"}) /\ Apply(eval_binary_enter(ctrl, stack, config))
EvalCall       == Entering({"Call"}) /\ Apply(eval_call(ctrl, stack, config))
EvalMethodCall == Entering({"MethodCall"}) /\ Apply(eval_method_call(ctrl, stack, config))
EvalList       == Entering({"List"}) /\ Apply(eval_list(ctrl, stack, config))
EvalMap        == Entering({"Map"}) /\ Apply(eval_map(ctrl, stack, config))
EvalIf         == Entering({"If"}) /\ Apply(eval_if(ctrl, stack, config))
EvalRepeat     == Entering({"Repeat"}) /\ Apply(eval_repeat(ctrl, stack, config))

BinaryLeftDone ==
    ReturnsOk /\ TopIs("BinaryLeft") /\ Apply(eval_binary_left_done(ctrl.res.val, stack, config))
BinaryRightDone ==
    ReturnsOk /\ TopIs("BinaryRight") /\ Apply(eval_binary_right_done(ctrl.res.val, stack, config))
ArgsNext     == LoopOf("Args") /\ Apply(eval_args_next(stack, config))
ArgsPush     == ReturnsOk /\ TopIs("Args") /\ Apply(eval_args_push(ctrl.res.val, stack, config))
FunctionDone == ReturnsOk /\ TopIs("Function") /\ Apply(eval_function_done(ctrl.res, stack, config))
ListNext     == LoopOf("List") /\ Apply(eval_list_next(stack, config))
ListPush     == ReturnsOk /\ TopIs("List") /\ Apply(eval_list_push(ctrl.res.val, stack, config))
MapNext      == LoopOf("Map") /\ Apply(eval_map_next(stack, config))
MapInsert    == ReturnsOk /\ TopIs("Map") /\ Apply(eval_map_insert(ctrl.res.val, stack, config))
IfNext       == LoopOf("If") /\ Apply(eval_if_next(stack, config))
IfCondDone ==
    /\ ReturnsOk /\ TopIs("If") /\ Head(stack).phase = "cond"
    /\ Apply(eval_if_cond_done(ctrl.res.val, stack, config))
IfBodyDone ==
    /\ ReturnsOk /\ TopIs("If") /\ Head(stack).phase = "body"
    /\ Apply(eval_if_body_done(ctrl.res, stack, config))
RepeatCountDone ==
    /\ ReturnsOk /\ TopIs("Repeat") /\ Head(stack).phase = "count"
    /\ Apply(eval_repeat_count_done(ctrl.res.val, stack, config))
RepeatNext == LoopOf("Repeat") /\ Apply(eval_repeat_next(stack, config))
RepeatBodyDone ==
    /\ ReturnsOk /\ TopIs("Repeat") /\ Head(stack).phase = "body"
    /\ Apply(eval_repeat_body_done(ctrl.res.val, stack, config))

PropagateError == ReturnsErr /\ stack # <<>> /\ Apply(propagate_error(ctrl.res, stack, config))

\* eval_body_expr returns
Finish ==
    /\ ctrl.mode = "ret" /\ stack = <<>>
    /\ result' = <<body_result(ctrl.res)>>
    /\ ctrl' = Finished
    /\ UNCHANGED <<expr, bindings, stack, config, visits, outcome, parseVars, testVars, moreVars>>

NextEval ==
    \/ EvalLiteral \/ EvalVar \/ EvalBinary \/ EvalCall \/ EvalMethodCall
    \/ EvalList \/ EvalMap \/ EvalIf \/ EvalRepeat
    \/ BinaryLeftDone \/ BinaryRightDone
    \/ ArgsNext \/ ArgsPush \/ FunctionDone
    \/ ListNext \/ ListPush \/ MapNext \/ MapInsert
    \/ IfNext \/ IfCondDone \/ IfBodyDone
    \/ RepeatCountDone \/ RepeatNext \/ RepeatBodyDone
    \/ PropagateError \/ Finish

-----------------------------------------------------------------------------
(* The statement parser (src/parser/mod.rs): str operations *)

\* a TLA+ string as a sequence of one-character strings
Chars(str) == [k \in 1..Len(str) |-> SubSeq(str, k, k)]

\* char::is_whitespace, on the characters that survive str::lines
WhiteSpace == {" ", "\t"}

RECURSIVE trim_start(_)
trim_start(s) == IF s # <<>> /\ Head(s) \in WhiteSpace THEN trim_start(Tail(s)) ELSE s

RECURSIVE trim_end(_)
trim_end(s) ==
    IF s # <<>> /\ s[Len(s)] \in WhiteSpace THEN trim_end(SubSeq(s, 1, Len(s) - 1)) ELSE s

trim(s) == trim_end(trim_start(s))

starts_with(s, prefix) == Len(s) >= Len(prefix) /\ SubSeq(s, 1, Len(prefix)) = prefix

\* Option<&str>: <<>> is None, <<rest>> is Some(rest)
strip_prefix(s, prefix) ==
    IF starts_with(s, prefix) THEN <<SubSeq(s, Len(prefix) + 1, Len(s))>> ELSE <<>>

\* str::find(char): Option<usize>, the index counted from 0
find(s, c) ==
    LET ks == {k \in 1..Len(s) : s[k] = c}
    IN  IF ks = {} THEN <<>> ELSE <<(CHOOSE k \in ks : \A j \in ks : k <= j) - 1>>

\* &s[from..to] and &s[from..], indices counted from 0
Slice(s, from, to) == SubSeq(s, from + 1, to)
SliceFrom(s, from) == SubSeq(s, from + 1, Len(s))

\* the length of the longest prefix of s without a character of seps
RECURSIVE PrefixLen(_, _)
PrefixLen(s, seps) ==
    IF s = <<>> \/ Head(s) \in seps THEN 0 ELSE 1 + PrefixLen(Tail(s), seps)

RECURSIVE split_whitespace(_)
split_whitespace(s) ==
    LET t == trim_start(s)
        n == PrefixLen(t, WhiteSpace)
    IN  IF t = <<>> THEN <<>>
        ELSE <<SubSeq(t, 1, n)>> \o split_whitespace(SubSeq(t, n + 1, Len(t)))

\* str::splitn(2, c)
splitn2(s, c) ==
    LET k == find(s, c)
    IN  IF k = <<>> THEN <<s>> ELSE <<Slice(s, 0, k[1]), SliceFrom(s, k[1] + 1)>>

\* str::split(seps): every piece, the empty ones too
RECURSIVE split(_, _)
split(s, seps) ==
    LET n == PrefixLen(s, seps)
    IN  IF n = Len(s) THEN <<s>>
        ELSE <<SubSeq(s, 1, n)>> \o split(SubSeq(s, n + 2, Len(s)), seps)

\* .map(|s| s.trim()).filter(|s| !s.is_empty())
RECURSIVE trim_nonempty(_)
trim_nonempty(parts) ==
    IF parts = <<>> THEN <<>>
    ELSE LET t == trim(Head(parts))
         IN  (IF t = <<>> THEN <<>> ELSE <<t>>) \o trim_nonempty(Tail(parts))

RECURSIVE StripZeros(_)
StripZeros(ds) == IF Len(ds) > 1 /\ Head(ds) = "0" THEN StripZeros(Tail(ds)) ELSE ds

RECURSIVE DigitsLe(_, _)
\* a <= b, for digit strings of the same length
DigitsLe(a, b) ==
    IF a = <<>> THEN TRUE
    ELSE IF DigitVal(Head(a)) # DigitVal(Head(b)) THEN DigitVal(Head(a)) < DigitVal(Head(b))
    ELSE DigitsLe(Tail(a), Tail(b))

\* the number a digit string writes is at most the number max writes
DecimalLe(ds, max) ==
    LET a == StripZeros(ds)
    IN  Len(a) < Len(max) \/ (Len(a) = Len(max) /\ DigitsLe(a, max))

\* u16::MAX and u32::MAX, written out
U16Max == Chars("65535")
U32Max == Chars("4294967295")

\* str::parse for u16 / u32: an optional '+', then digits, no overflow
parse_unsigned(s, max) ==
    LET body == IF s # <<>> /\ s[1] = "+" THEN Tail(s) ELSE s
    IN  IF body # <<>> /\ (\A k \in 1..Len(body) : IsDigit(body[k])) /\ DecimalLe(body, max)
        THEN <<DigitsToNat(body)>> ELSE <<>>

\* format!: the message, every {} replaced by the next argument
RECURSIVE FormatChars(_, _)
FormatChars(f, args) ==
    LET holes == {k \in 1..(Len(f) - 1) : f[k] = "{" /\ f[k + 1] = "}"}
        first == CHOOSE k \in holes : \A m \in holes : k <= m
    IN  IF holes = {} THEN f
        ELSE SubSeq(f, 1, first - 1) \o Head(args)
             \o FormatChars(SubSeq(f, first + 2, Len(f)), Tail(args))

Format(e) == FormatChars(Chars(e.fmt), e.args)

\* an error message that starts with the number of the line
LineErr(fmt, line_no, args) == Err(fmt, <<NatToStr(line_no)>> \o args)

\* extract_quoted: Ok([content, rest])
extract_quoted(s, line_no, what) ==
    LET start == find(s, "\"")
    IN  IF start = <<>>
        THEN LineErr("Line {}: expected opening '\"' for {} string", line_no, <<Chars(what)>>)
        ELSE LET after_start == SliceFrom(s, start[1] + 1)
                 end_rel     == find(after_start, "\"")
             IN  IF end_rel = <<>>
                 THEN LineErr("Line {}: expected closing '\"' for {} string", line_no,
                              <<Chars(what)>>)
                 ELSE Ok([content |-> Slice(after_start, 0, end_rel[1]),
                          rest |-> SliceFrom(after_start, end_rel[1] + 1)])

\* parse_server_line
parse_server_line(line, line_no) ==
    LET parts == split_whitespace(line)
    IN  IF Len(parts) < 2 \/ Len(parts) > 3
        THEN LineErr("Line {}: invalid server declaration; expected 'server <port>' or 'server <port> tls'",
                     line_no, <<>>)
        ELSE LET port == parse_unsigned(parts[2], U16Max)
             IN  IF port = <<>>
                 THEN LineErr("Line {}: invalid port number '{}'; expected an integer between 0 and 65535",
                              line_no, <<parts[2]>>)
                 ELSE IF Len(parts) = 3 /\ parts[3] # Chars("tls")
                 THEN LineErr("Line {}: expected 'tls' keyword after port or nothing", line_no, <<>>)
                 ELSE Ok([port |-> port[1], tls |-> Len(parts) = 3])

\* parse_secret_line
parse_secret_line(line, line_no) ==
    LET stripped == strip_prefix(line, Chars("secret"))
    IN  IF stripped = <<>>
        THEN LineErr("Line {}: secret line must start with 'secret'", line_no, <<>>)
        ELSE LET parts == splitn2(trim_start(stripped[1]), "=")
             IN  IF Len(parts) # 2
                 THEN LineErr("Line {}: invalid secret declaration; expected 'secret NAME = \"ENV_VAR\"'",
                              line_no, <<>>)
                 ELSE IF trim(parts[1]) = <<>>
                 THEN LineErr("Line {}: secret name cannot be empty", line_no, <<>>)
                 ELSE LET q == extract_quoted(trim(parts[2]), line_no, "secret env var")
                      IN  IF ~q.ok THEN q
                          ELSE Ok([name |-> trim(parts[1]), key |-> q.val.content])

\* parse_rate_limit_line
parse_rate_limit_line(line, line_no) ==
    LET stripped == strip_prefix(line, Chars("@rate_limit"))
        rest     == trim_start(stripped[1])
        close    == find(rest, ")")
        paren    == starts_with(rest, <<"(">>)
        parts    == IF paren THEN trim_nonempty(split(Slice(rest, 1, close[1]), {",", " "}))
                    ELSE split_whitespace(rest)
        max_requests == parse_unsigned(parts[1], U32Max)
        window_secs  == parse_unsigned(parts[2], U32Max)
    IN  IF stripped = <<>>
        THEN LineErr("Line {}: rate-limit line must start with '@rate_limit'", line_no, <<>>)
        ELSE IF paren /\ close = <<>>
        THEN LineErr("Line {}: expected ')' to close @rate_limit(max, window_secs)", line_no, <<>>)
        ELSE IF paren /\ Len(parts) # 2
        THEN LineErr("Line {}: @rate_limit(max, window_secs) expects exactly two numeric arguments",
                     line_no, <<>>)
        ELSE IF ~paren /\ Len(parts) # 2
        THEN LineErr("Line {}: @rate_limit expects two numbers, e.g. '@rate_limit 5 60'",
                     line_no, <<>>)
        ELSE IF max_requests = <<>>
        THEN LineErr("Line {}: invalid max_requests '{}' in @rate_limit", line_no, <<parts[1]>>)
        ELSE IF window_secs = <<>>
        THEN LineErr("Line {}: invalid window_secs '{}' in @rate_limit", line_no, <<parts[2]>>)
        ELSE Ok([max_requests |-> max_requests[1], window_secs |-> window_secs[1]])

-----------------------------------------------------------------------------
(* The expression parser (src/parser/expr.rs) *)

\* enum TokKind
TNumber(a) == [k |-> "Number", n |-> a]
TStr(s)    == [k |-> "Str", s |-> s]
TIdent(s)  == [k |-> "Ident", s |-> s]
TSym(kind) == [k |-> kind]

IsAsciiAlphabetic(c) ==
    \/ CharCode(c) \in CharCode("A")..CharCode("Z")
    \/ CharCode(c) \in CharCode("a")..CharCode("z")

RECURSIVE NumberLen(_)
\* how far `while chars[i].is_ascii_digit() || chars[i] == '.'` gets
NumberLen(s) == IF s = <<>> \/ ~(IsDigit(Head(s)) \/ Head(s) = ".") THEN 0 ELSE 1 + NumberLen(Tail(s))

RECURSIVE StringLen(_)
\* how far `while chars[i] != '"'` gets
StringLen(s) == IF s = <<>> \/ Head(s) = "\"" THEN 0 ELSE 1 + StringLen(Tail(s))

RECURSIVE IdentLen(_)
\* how far `while chars[i].is_ascii_alphanumeric() || chars[i] == '_'` gets
IdentLen(s) ==
    IF s = <<>> \/ ~(IsAsciiAlphabetic(Head(s)) \/ IsDigit(Head(s)) \/ Head(s) = "_") THEN 0
    ELSE 1 + IdentLen(Tail(s))

\* tokens.push(tok), then the rest of the loop
PushTok(tok, rest) == IF rest.ok THEN Ok(<<tok>> \o rest.val) ELSE rest

\* the one-character tokens
SymbolOf(c) ==
    CASE c = "+" -> "Plus"     [] c = "-" -> "Minus"    [] c = "*" -> "Star"
      [] c = "/" -> "Slash"    [] c = "(" -> "LParen"   [] c = ")" -> "RParen"
      [] c = "," -> "Comma"    [] c = "." -> "Dot"      [] c = ":" -> "Colon"
      [] c = "[" -> "LBracket" [] c = "]" -> "RBracket" [] c = "{" -> "LBrace"
      [] c = "}" -> "RBrace"   [] OTHER -> ""

RECURSIVE tokenize_expr(_)
\* tokenize_expr
tokenize_expr(s) ==
    IF s = <<>> THEN Ok(<<>>)
    ELSE LET c       == Head(s)
             followed == Len(s) >= 2 /\ s[2] = "="
         IN  IF c \in WhiteSpace THEN tokenize_expr(Tail(s))
             ELSE IF IsDigit(c)
             THEN LET n    == 1 + NumberLen(Tail(s))
                      text == SubSeq(s, 1, n)
                      v    == ParseF64(text)
                  IN  IF ~v.ok THEN Err("Invalid number literal '{}'", <<text>>)
                      ELSE PushTok(TNumber(v.val), tokenize_expr(SubSeq(s, n + 1, Len(s))))
             ELSE IF c = "\""
             THEN LET n == StringLen(Tail(s))
                  IN  IF n + 1 >= Len(s) THEN Err("Unterminated string literal", <<>>)
                      ELSE PushTok(TStr(SubSeq(s, 2, n + 1)),
                                   tokenize_expr(SubSeq(s, n + 3, Len(s))))
             ELSE IF SymbolOf(c) # ""
             THEN PushTok(TSym(SymbolOf(c)), tokenize_expr(Tail(s)))
             ELSE IF c = "="
             THEN IF followed THEN PushTok(TSym("EqEq"), tokenize_expr(SubSeq(s, 3, Len(s))))
                  ELSE Err("Unexpected '=' in expression; use '==' for equality comparisons", <<>>)
             ELSE IF c = "!"
             THEN IF followed THEN PushTok(TSym("BangEq"), tokenize_expr(SubSeq(s, 3, Len(s))))
                  ELSE Err("Unexpected '!' in expression; use '!=' for inequality comparisons", <<>>)
             ELSE IF c = "<"
             THEN IF followed THEN PushTok(TSym("Le"), tokenize_expr(SubSeq(s, 3, Len(s))))
                  ELSE PushTok(TSym("Lt"), tokenize_expr(Tail(s)))
             ELSE IF c = ">"
             THEN IF followed THEN PushTok(TSym("Ge"), tokenize_expr(SubSeq(s, 3, Len(s))))
                  ELSE PushTok(TSym("Gt"), tokenize_expr(Tail(s)))
             ELSE IF IsAsciiAlphabetic(c) \/ c = "_"
             THEN LET n == 1 + IdentLen(Tail(s))
                  IN  PushTok(TIdent(SubSeq(s, 1, n)), tokenize_expr(SubSeq(s, n + 1, Len(s))))
             ELSE Err("Unexpected character '{}' in expression", << <<c>> >>)

\* {:?} of an f64, of a TokKind and of an Option<TokKind>
DebugF64(a) == IF FractIsZero(a) THEN IntToStr(a.n) \o Chars(".0") ELSE F64ToStr(a)
DebugTok(t) ==
    CASE t.k = "Number" -> Chars("Number(") \o DebugF64(t.n) \o Chars(")")
      [] t.k = "Str"    -> Chars("Str(\"") \o t.s \o Chars("\")")
      [] t.k = "Ident"  -> Chars("Ident(\"") \o t.s \o Chars("\")")
      [] OTHER          -> Chars(t.k)
DebugOpt(o) == IF o = <<>> THEN Chars("None") ELSE Chars("Some(") \o DebugTok(o[1]) \o Chars(")")

\* `let x = v;` followed by body, v computed once
Let(v, body(_)) == body(v)

\* ExprParser: tokens t and pos p, the index (from 1) of the next token
peek(t, p) == IF p <= Len(t) THEN <<t[p]>> ELSE <<>>
\* the position after bump()
bumped(t, p) == IF p <= Len(t) THEN p + 1 ELSE p
PeekIs(t, p, kind) == p <= Len(t) /\ t[p].k = kind
\* peek_ident() == Some(name)
PeekIdent(t, p, name) == p <= Len(t) /\ t[p].k = "Ident" /\ t[p].s = Chars(name)

\* Ok(expr) with the parser's position after it
Parsed(e, p) == [ok |-> TRUE, val |-> e, pos |-> p]

\* expect_colon: the position after the colon
expect_colon(t, p, ctx) ==
    IF PeekIs(t, p, "Colon") THEN Parsed(<<>>, p + 1)
    ELSE Err("Expected ':' after {} condition, found {}", <<Chars(ctx), DebugOpt(peek(t, p))>>)

\* a call of a method of the ExprParser: the methods call one another through it
RECURSIVE ExprParser(_, _, _)
RECURSIVE or_loop(_, _, _), and_loop(_, _, _), comparison_loop(_, _, _),
          add_sub_loop(_, _, _), mul_div_loop(_, _, _), arg_list_loop(_, _, _),
          list_literal_loop(_, _, _), map_literal_loop(_, _, _), if_loop(_, _, _)

\* ExprParser::parse_expr
ExprParser_parse_expr(t, p) ==
    IF PeekIdent(t, p, "if") THEN ExprParser("parse_if_expr", t, p)
    ELSE IF PeekIdent(t, p, "repeat") THEN ExprParser("parse_repeat_expr", t, p)
    ELSE ExprParser("parse_or", t, p)

parse_or(t, p) ==
    LET l == ExprParser("parse_and", t, p) IN IF ~l.ok THEN l ELSE or_loop(t, l.val, l.pos)
or_loop(t, e, p) ==
    IF ~PeekIdent(t, p, "or") THEN Parsed(e, p)
    ELSE LET r == ExprParser("parse_and", t, p + 1)
         IN  IF ~r.ok THEN r ELSE or_loop(t, EBinary(e, "Or", r.val), r.pos)

parse_and(t, p) ==
    LET l == ExprParser("parse_comparison", t, p) IN IF ~l.ok THEN l ELSE and_loop(t, l.val, l.pos)
and_loop(t, e, p) ==
    IF ~PeekIdent(t, p, "and") THEN Parsed(e, p)
    ELSE LET r == ExprParser("parse_comparison", t, p + 1)
         IN  IF ~r.ok THEN r ELSE and_loop(t, EBinary(e, "And", r.val), r.pos)

\* the BinOp of a comparison token
ComparisonOp(kind) ==
    CASE kind = "EqEq" -> "Eq" [] kind = "BangEq" -> "Ne" [] kind = "Lt" -> "Lt"
      [] kind = "Le" -> "Le"   [] kind = "Gt" -> "Gt"     [] kind = "Ge" -> "Ge"
      [] OTHER -> ""

parse_comparison(t, p) ==
    LET l == ExprParser("parse_add_sub", t, p) IN IF ~l.ok THEN l ELSE comparison_loop(t, l.val, l.pos)
comparison_loop(t, e, p) ==
    IF p > Len(t) \/ ComparisonOp(t[p].k) = "" THEN Parsed(e, p)
    ELSE LET r == ExprParser("parse_add_sub", t, p + 1)
         IN  IF ~r.ok THEN r
             ELSE comparison_loop(t, EBinary(e, ComparisonOp(t[p].k), r.val), r.pos)

\* parse_add_sub, were the right operand of + / - the rest of the additive chain
parse_add_sub_right_assoc(t, p) ==
    LET l == ExprParser("parse_mul_div", t, p)
    IN  IF ~l.ok THEN l
        ELSE IF ~(PeekIs(t, l.pos, "Plus") \/ PeekIs(t, l.pos, "Minus")) THEN l
        ELSE LET r == ExprParser("parse_add_sub", t, l.pos + 1)
             IN  IF ~r.ok THEN r
                 ELSE Parsed(EBinary(l.val, IF t[l.pos].k = "Plus" THEN "Add" ELSE "Sub", r.val),
                             r.pos)

parse_add_sub(t, p) ==
    LET l == ExprParser("parse_mul_div", t, p) IN IF ~l.ok THEN l ELSE add_sub_loop(t, l.val, l.pos)
add_sub_loop(t, e, p) ==
    IF ~(PeekIs(t, p, "Plus") \/ PeekIs(t, p, "Minus")) THEN Parsed(e, p)
    ELSE LET r == ExprParser("parse_mul_div", t, p + 1)
         IN  IF ~r.ok THEN r
             ELSE add_sub_loop(t, EBinary(e, IF t[p].k = "Plus" THEN "Add" ELSE "Sub", r.val),
                               r.pos)

parse_mul_div(t, p) ==
    LET l == ExprParser("parse_factor", t, p) IN IF ~l.ok THEN l ELSE mul_div_loop(t, l.val, l.pos)
mul_div_loop(t, e, p) ==
    IF ~(PeekIs(t, p, "Star") \/ PeekIs(t, p, "Slash")) THEN Parsed(e, p)
    ELSE LET r == ExprParser("parse_factor", t, p + 1)
         IN  IF ~r.ok THEN r
             ELSE mul_div_loop(t, EBinary(e, IF t[p].k = "Star" THEN "Mul" ELSE "Div", r.val),
                               r.pos)

parse_factor(t, p) ==
    IF PeekIs(t, p, "Number") THEN Parsed(ENumber(t[p].n), p + 1)
    ELSE IF PeekIs(t, p, "Str") THEN Parsed(EStr(t[p].s), p + 1)
    ELSE IF PeekIs(t, p, "Ident")
    THEN LET name == t[p].s
         IN  IF name = Chars("true") THEN Parsed(EBool(TRUE), p + 1)
             ELSE IF name = Chars("false") THEN Parsed(EBool(FALSE), p + 1)
             ELSE IF PeekIs(t, p + 1, "Dot")
             THEN IF ~PeekIs(t, p + 2, "Ident")
                  THEN Err("Expected method name after '.', found {}", <<DebugOpt(peek(t, p + 2))>>)
                  ELSE IF ~PeekIs(t, p + 3, "LParen")
                  THEN Err("Expected '(' after method name", <<>>)
                  ELSE LET a == ExprParser("parse_arg_list", t, p + 4)
                       IN  IF ~a.ok THEN a
                           ELSE Parsed(EMethodCall(name, t[p + 2].s, a.val), a.pos)
             ELSE IF PeekIs(t, p + 1, "LParen")
             THEN LET a == ExprParser("parse_arg_list", t, p + 2)
                  IN  IF ~a.ok THEN a ELSE Parsed(ECall(name, a.val), a.pos)
             ELSE Parsed(EVar(name), p + 1)
    ELSE IF PeekIs(t, p, "LParen")
    THEN LET e == ExprParser("parse_expr", t, p + 1)
         IN  IF ~e.ok THEN e
             ELSE IF PeekIs(t, e.pos, "RParen") THEN Parsed(e.val, e.pos + 1)
             ELSE Err("Expected ')', found {}", <<DebugOpt(peek(t, e.pos))>>)
    ELSE IF PeekIs(t, p, "LBracket") THEN ExprParser("parse_list_literal", t, p + 1)
    ELSE IF PeekIs(t, p, "LBrace") THEN ExprParser("parse_map_literal", t, p + 1)
    ELSE Err("Unexpected token in expression: {}", <<DebugOpt(peek(t, p))>>)

parse_arg_list(t, p) ==
    IF PeekIs(t, p, "RParen") THEN Parsed(<<>>, p + 1) ELSE arg_list_loop(t, <<>>, p)
arg_list_loop(t, args, p) ==
    LET e == ExprParser("parse_expr", t, p)
    IN  IF ~e.ok THEN e
        ELSE IF PeekIs(t, e.pos, "Comma") THEN arg_list_loop(t, Append(args, e.val), e.pos + 1)
        ELSE IF PeekIs(t, e.pos, "RParen") THEN Parsed(Append(args, e.val), e.pos + 1)
        ELSE Err("Expected ',' or ')' in argument list, found {}", <<DebugOpt(peek(t, e.pos))>>)

parse_list_literal(t, p) ==
    IF PeekIs(t, p, "RBracket") THEN Parsed(EList(<<>>), p + 1) ELSE list_literal_loop(t, <<>>, p)
list_literal_loop(t, items, p) ==
    LET e == ExprParser("parse_expr", t, p)
    IN  IF ~e.ok THEN e
        ELSE IF PeekIs(t, e.pos, "Comma") THEN list_literal_loop(t, Append(items, e.val), e.pos + 1)
        ELSE IF PeekIs(t, e.pos, "RBracket") THEN Parsed(EList(Append(items, e.val)), e.pos + 1)
        ELSE Err("Expected ',' or ']' in list literal, found {}", <<DebugOpt(peek(t, e.pos))>>)

parse_map_literal(t, p) ==
    IF PeekIs(t, p, "RBrace") THEN Parsed(EMap(<<>>), p + 1) ELSE map_literal_loop(t, <<>>, p)
map_literal_loop(t, entries, p) ==
    IF ~(PeekIs(t, p, "Ident") \/ PeekIs(t, p, "Str"))
    THEN Err("Expected identifier or string as map key, found {}", <<DebugOpt(peek(t, p))>>)
    ELSE IF ~PeekIs(t, p + 1, "Colon")
    THEN Err("Expected ':' after map key, found {}", <<DebugOpt(peek(t, p + 1))>>)
    ELSE LET e    == ExprParser("parse_expr", t, p + 2)
             next == Append(entries, <<t[p].s, e.val>>)
         IN  IF ~e.ok THEN e
             ELSE IF PeekIs(t, e.pos, "Comma") THEN map_literal_loop(t, next, e.pos + 1)
             ELSE IF PeekIs(t, e.pos, "RBrace") THEN Parsed(EMap(next), e.pos + 1)
             ELSE Err("Expected ',' or '}' in map literal, found {}", <<DebugOpt(peek(t, e.pos))>>)

\* a condition, the colon, a body: what if, elif share
parse_if_expr(t, p) ==
    LET c == ExprParser("parse_or", t, p + 1)
        k == expect_colon(t, c.pos, "if")
        b == ExprParser("parse_expr", t, k.pos)
    IN  IF ~c.ok THEN c ELSE IF ~k.ok THEN k ELSE IF ~b.ok THEN b
        ELSE if_loop(t, << <<c.val, b.val>> >>, b.pos)
if_loop(t, branches, p) ==
    IF PeekIdent(t, p, "elif")
    THEN LET c == ExprParser("parse_or", t, p + 1)
             k == expect_colon(t, c.pos, "elif")
             b == ExprParser("parse_expr", t, k.pos)
         IN  IF ~c.ok THEN c ELSE IF ~k.ok THEN k ELSE IF ~b.ok THEN b
             ELSE if_loop(t, Append(branches, <<c.val, b.val>>), b.pos)
    ELSE IF PeekIdent(t, p, "else")
    THEN LET k == expect_colon(t, p + 1, "else")
             b == ExprParser("parse_expr", t, k.pos)
         IN  IF ~k.ok THEN k ELSE IF ~b.ok THEN b
             ELSE Parsed(EIf(branches, <<b.val>>), b.pos)
    ELSE Parsed(EIf(branches, <<>>), p)

parse_repeat_expr(t, p) ==
    LET c == ExprParser("parse_or", t, p + 1)
        k == expect_colon(t, c.pos + 1, "repeat")
        b == ExprParser("parse_expr", t, k.pos)
    IN  IF ~c.ok THEN c
        ELSE IF ~PeekIdent(t, c.pos, "times")
        THEN Err("Expected 'times' after repeat-count expression, found {}",
                 <<DebugOpt(peek(t, c.pos))>>)
        ELSE IF ~k.ok THEN k ELSE IF ~b.ok THEN b
        ELSE Parsed(ERepeat(c.val, b.val), b.pos)

\* the method of that name
ExprParser(method, t, p) ==
    CASE method = "parse_expr"         -> ExprParser_parse_expr(t, p)
      [] method = "parse_or"           -> parse_or(t, p)
      [] method = "parse_and"          -> parse_and(t, p)
      [] method = "parse_comparison"   -> parse_comparison(t, p)
      [] method = "parse_add_sub"      -> parse_add_sub(t, p)
      [] method = "parse_mul_div"      -> parse_mul_div(t, p)
      [] method = "parse_factor"       -> parse_factor(t, p)
      [] method = "parse_arg_list"     -> parse_arg_list(t, p)
      [] method = "parse_list_literal" -> parse_list_literal(t, p)
      [] method = "parse_map_literal"  -> parse_map_literal(t, p)
      [] method = "parse_if_expr"      -> parse_if_expr(t, p)
      [] method = "parse_repeat_expr"  -> parse_repeat_expr(t, p)

\* parse_expr
parse_expr(s) ==
    Let(tokenize_expr(s), LAMBDA tokens :
        IF ~tokens.ok THEN tokens
        ELSE Let(ExprParser("parse_expr", tokens.val, 1), LAMBDA e :
                 IF ~e.ok THEN e
                 ELSE IF e.pos # Len(tokens.val) + 1
                 THEN Err("Unexpected tokens after end of expression", <<>>)
                 ELSE Ok(e.val)))

-----------------------------------------------------------------------------
(* The statement parser (src/parser/mod.rs): the declarations *)

\* enum Body
TextExpr(e) == [kind |-> "TextExpr", expr |-> e]
JsonRaw(s)  == [kind |-> "JsonRaw", raw |-> s]

\* map_err(|e| format!("Line {} (<what>): {}", line_no, e))
NestedErr(fmt, line_no, e) == LineErr(fmt, line_no, <<Format(e.err)>>)

\* `lines[j]`, j counted from 0
LineAt(ls, j) == ls[j + 1]

\* a line the loops skip: blank, or a comment
Skipped(raw) == trim(raw) = <<>> \/ starts_with(trim(raw), <<"#">>)
\* a line that belongs to the block of a class, a model or a test
Indented(raw) == starts_with(raw, <<" ">>) \/ starts_with(raw, <<"\t">>)

\* parse_body_spec
parse_body_spec(s, line_no) ==
    LET trimmed == trim(s)
        json    == strip_prefix(trimmed, Chars("json"))
    IN  IF json # <<>>
        THEN IF trim_start(json[1]) = <<>>
             THEN LineErr("Line {}: expected JSON expression after 'json'", line_no, <<>>)
             ELSE Ok(JsonRaw(trim_start(json[1])))
        ELSE Let(parse_expr(trimmed), LAMBDA e :
                 IF ~e.ok THEN NestedErr("Line {} (body expression): {}", line_no, e)
                 ELSE Ok(TextExpr(e.val)))

\* struct EndpointDecl
EndpointDecl(method, path, body, rate_limit) ==
    [method |-> method, path |-> path, body |-> body, rate_limit |-> rate_limit]

RECURSIVE endpoint_body_not_consumed(_, _, _, _, _)
endpoint_body_not_consumed(ls, j, method, path, line_no) ==
    IF j >= Len(ls)
    THEN LineErr("Line {}: endpoint declaration missing body expression after ':'", line_no, <<>>)
    ELSE IF Skipped(LineAt(ls, j))
    THEN endpoint_body_not_consumed(ls, j + 1, method, path, line_no)
    ELSE Let(parse_body_spec(trim(LineAt(ls, j)), j + 1), LAMBDA body :
             IF ~body.ok THEN body
             ELSE Ok([ep |-> EndpointDecl(method, path, body.val, <<>>), next |-> j]))

RECURSIVE endpoint_body(_, _, _, _, _)
\* parse_endpoint: the loop that looks for the body on the lines after the header
endpoint_body(ls, j, method, path, line_no) ==
    IF j >= Len(ls)
    THEN LineErr("Line {}: endpoint declaration missing body expression after ':'", line_no, <<>>)
    ELSE IF Skipped(LineAt(ls, j)) THEN endpoint_body(ls, j + 1, method, path, line_no)
    ELSE Let(parse_body_spec(trim(LineAt(ls, j)), j + 1), LAMBDA body :
             IF ~body.ok THEN body
             ELSE Ok([ep |-> EndpointDecl(method, path, body.val, <<>>), next |-> j + 1]))

\* parse_endpoint: Ok([ep, next])
parse_endpoint(ls, start) ==
    LET line_no  == start + 1
        stripped == strip_prefix(trim(LineAt(ls, start)), Chars("endpoint"))
        parts    == splitn2(trim_start(stripped[1]), " ")
        method_str == parts[1]
        q        == extract_quoted(trim_start(parts[2]), line_no, "path")
        rest_after_path == trim_start(q.val.rest)
        colon_pos   == find(rest_after_path, ":")
        after_colon == trim_start(SliceFrom(rest_after_path, colon_pos[1] + 1))
        method   == IF method_str = Chars("GET") THEN "Get" ELSE "Post"
    IN  IF stripped = <<>>
        THEN LineErr("Line {}: endpoint line must start with 'endpoint'", line_no, <<>>)
        ELSE IF Len(parts) < 2
        THEN LineErr("Line {}: missing path after method", line_no, <<>>)
        ELSE IF method_str \notin {Chars("GET"), Chars("POST")}
        THEN LineErr("Line {}: unsupported method '{}'; only GET and POST are supported for now",
                     line_no, <<method_str>>)
        ELSE IF ~q.ok THEN q
        ELSE IF colon_pos = <<>>
        THEN LineErr("Line {}: expected ':' after path in endpoint declaration", line_no, <<>>)
        ELSE IF after_colon # <<>>
        THEN Let(parse_body_spec(after_colon, line_no), LAMBDA body :
                 IF ~body.ok THEN body
                 ELSE Ok([ep |-> EndpointDecl(method, q.val.content, body.val, <<>>),
                          next |-> start + 1]))
        ELSE endpoint_body(ls, start + 1, method, q.val.content, line_no)

\* parse_param_list
parse_param_list(s) ==
    IF trim(s) = <<>> THEN <<>> ELSE trim_nonempty(split(trim(s), {","}))

\* parse_func_line
parse_func_line(line, line_no) ==
    LET stripped     == strip_prefix(line, Chars("func"))
        rest         == trim_start(stripped[1])
        open_paren   == find(rest, "(")
        after_name   == SliceFrom(rest, open_paren[1] + 1)
        close_paren  == find(after_name, ")")
        after_parens == trim_start(SliceFrom(after_name, close_paren[1] + 1))
        colon_pos    == find(after_parens, ":")
        body_str     == trim_start(SliceFrom(after_parens, colon_pos[1] + 1))
    IN  IF stripped = <<>>
        THEN LineErr("Line {}: function line must start with 'func'", line_no, <<>>)
        ELSE IF open_paren = <<>>
        THEN LineErr("Line {}: expected '(' in function definition", line_no, <<>>)
        ELSE IF close_paren = <<>>
        THEN LineErr("Line {}: expected ')' in parameter list", line_no, <<>>)
        ELSE IF colon_pos = <<>>
        THEN LineErr("Line {}: expected ':' after parameter list", line_no, <<>>)
        ELSE Let(parse_expr(body_str), LAMBDA body_expr :
                 IF ~body_expr.ok
                 THEN NestedErr("Line {} (function body): {}", line_no, body_expr)
                 ELSE Ok(FunctionDef(trim(Slice(rest, 0, open_paren[1])),
                                     parse_param_list(Slice(after_name, 0, close_paren[1])),
                                     body_expr.val)))

\* parse_method_line
parse_method_line(line, line_no) ==
    LET open_paren   == find(line, "(")
        after_name   == SliceFrom(line, open_paren[1] + 1)
        close_paren  == find(after_name, ")")
        after_parens == trim_start(SliceFrom(after_name, close_paren[1] + 1))
        colon_pos    == find(after_parens, ":")
        body_str     == trim_start(SliceFrom(after_parens, colon_pos[1] + 1))
    IN  IF open_paren = <<>>
        THEN LineErr("Line {}: expected '(' in method definition", line_no, <<>>)
        ELSE IF close_paren = <<>>
        THEN LineErr("Line {}: expected ')' in method parameter list", line_no, <<>>)
        ELSE IF colon_pos = <<>>
        THEN LineErr("Line {}: expected ':' after method parameter list", line_no, <<>>)
        ELSE Let(parse_expr(body_str), LAMBDA body_expr :
                 IF ~body_expr.ok
                 THEN NestedErr("Line {} (method body): {}", line_no, body_expr)
                 ELSE Ok(FunctionDef(trim(Slice(line, 0, open_paren[1])),
                                     parse_param_list(Slice(after_name, 0, close_paren[1])),
                                     body_expr.val)))

\* HashMap::insert
hash_insert(m, key, value) == [q \in (DOMAIN m) \cup {key} |-> IF q = key THEN value ELSE m[q]]

RECURSIVE class_methods(_, _, _, _)
\* parse_class: the loop over the lines of the block
class_methods(ls, j, name, methods) ==
    IF j >= Len(ls) THEN Ok([class |-> [name |-> name, methods |-> methods], next |-> j])
    ELSE IF Skipped(LineAt(ls, j)) THEN class_methods(ls, j + 1, name, methods)
    ELSE IF ~Indented(LineAt(ls, j))
    THEN Ok([class |-> [name |-> name, methods |-> methods], next |-> j])
    ELSE Let(parse_method_line(trim(LineAt(ls, j)), j + 1), LAMBDA method_def :
             IF ~method_def.ok THEN method_def
             ELSE IF method_def.val.name \in DOMAIN methods
             THEN LineErr("Line {}: method '{}' already defined in class '{}'", j + 1,
                          <<method_def.val.name, name>>)
             ELSE class_methods(ls, j + 1, name,
                                hash_insert(methods, method_def.val.name, method_def.val)))

\* parse_class: Ok([class, next])
parse_class(ls, start) ==
    LET line_no   == start + 1
        stripped  == strip_prefix(trim(LineAt(ls, start)), Chars("class"))
        rest      == trim_start(stripped[1])
        colon_pos == find(rest, ":")
    IN  IF stripped = <<>>
        THEN LineErr("Line {}: class line must start with 'class'", line_no, <<>>)
        ELSE IF colon_pos = <<>>
        THEN LineErr("Line {}: expected ':' in class declaration", line_no, <<>>)
        ELSE class_methods(ls, start + 1, trim(Slice(rest, 0, colon_pos[1])), <<>>)

\* str::strip_suffix(char)
strip_suffix(s, c) == IF s # <<>> /\ s[Len(s)] = c THEN <<SubSeq(s, 1, Len(s) - 1)>> ELSE <<>>

\* the modifiers of a field: the first one that is not pk / primary / primary_key, if any
RECURSIVE bad_modifier(_)
bad_modifier(tokens) ==
    IF tokens = <<>> THEN <<>>
    ELSE IF to_lowercase(Head(tokens)) \in {Chars("pk"), Chars("primary"), Chars("primary_key")}
    THEN bad_modifier(Tail(tokens))
    ELSE <<Head(tokens)>>

\* parse_model_field
parse_model_field(line, line_no) ==
    LET colon_pos == find(line, ":")
        raw_name  == trim(Slice(line, 0, colon_pos[1]))
        optional  == strip_suffix(raw_name, "?")
        name      == IF optional # <<>> THEN trim(optional[1]) ELSE raw_name
        rest      == trim(SliceFrom(line, colon_pos[1] + 1))
        parts     == split_whitespace(rest)
        bad       == bad_modifier(Tail(parts))
    IN  IF colon_pos = <<>>
        THEN LineErr("Line {}: expected ':' in model field", line_no, <<>>)
        ELSE IF raw_name = <<>>
        THEN LineErr("Line {}: model field name cannot be empty", line_no, <<>>)
        ELSE IF rest = <<>>
        THEN LineErr("Line {}: expected type after ':' in model field '{}'", line_no, <<name>>)
        ELSE IF bad # <<>>
        THEN LineErr("Line {}: unrecognized modifier '{}' in model field '{}'", line_no,
                     <<bad[1], name>>)
        ELSE Ok([name |-> name, ty |-> parts[1], is_primary_key |-> Len(parts) > 1,
                 is_optional |-> optional # <<>>])

RECURSIVE model_fields(_, _, _, _, _)
\* parse_model: the loop over the lines of the block, and what follows it
model_fields(ls, j, name, fields, line_no) ==
    LET done == IF fields = <<>>
                THEN LineErr("Line {}: model '{}' must declare at least one field", line_no,
                             <<name>>)
                ELSE Ok([model |-> [name |-> name, table_name |-> name, fields |-> fields],
                         next |-> j])
    IN  IF j >= Len(ls) THEN done
        ELSE IF Skipped(LineAt(ls, j)) THEN model_fields(ls, j + 1, name, fields, line_no)
        ELSE IF ~Indented(LineAt(ls, j)) THEN done
        ELSE LET field == parse_model_field(trim(LineAt(ls, j)), j + 1)
             IN  IF ~field.ok THEN field
                 ELSE model_fields(ls, j + 1, name, Append(fields, field.val), line_no)

\* parse_model: Ok([model, next])
parse_model(ls, start) ==
    LET line_no   == start + 1
        stripped  == strip_prefix(trim(LineAt(ls, start)), Chars("model"))
        rest      == trim_start(stripped[1])
        colon_pos == find(rest, ":")
        name      == trim(Slice(rest, 0, colon_pos[1]))
    IN  IF stripped = <<>>
        THEN LineErr("Line {}: model line must start with 'model'", line_no, <<>>)
        ELSE IF colon_pos = <<>>
        THEN LineErr("Line {}: expected ':' in model declaration", line_no, <<>>)
        ELSE IF name = <<>>
        THEN LineErr("Line {}: model name cannot be empty", line_no, <<>>)
        ELSE model_fields(ls, start + 1, name, <<>>, line_no)

RECURSIVE test_assertions(_, _, _, _, _)
\* parse_test: the loop over the lines of the block, and what follows it
test_assertions(ls, j, name, assertions, line_no) ==
    LET done == IF assertions = <<>>
                THEN LineErr("Line {}: test '{}' must contain at least one 'assert' line",
                             line_no, <<name>>)
                ELSE Ok([test |-> [name |-> name, assertions |-> assertions], next |-> j])
    IN  IF j >= Len(ls) THEN done
        ELSE IF Skipped(LineAt(ls, j)) THEN test_assertions(ls, j + 1, name, assertions, line_no)
        ELSE IF ~Indented(LineAt(ls, j)) THEN done
        ELSE LET stripped    == strip_prefix(trim(LineAt(ls, j)), Chars("assert"))
                 assert_rest == trim_start(stripped[1])
             IN  IF stripped = <<>>
                 THEN LineErr("Line {}: expected 'assert <expr>' inside test '{}'", j + 1,
                              <<name>>)
                 ELSE IF assert_rest = <<>>
                 THEN LineErr("Line {}: missing expression after 'assert' in test '{}'", j + 1,
                              <<name>>)
                 ELSE Let(parse_expr(assert_rest), LAMBDA e :
                          IF ~e.ok THEN NestedErr("Line {} (assert expression): {}", j + 1, e)
                          ELSE test_assertions(ls, j + 1, name, Append(assertions, e.val),
                                               line_no))

\* parse_test: Ok([test, next])
parse_test(ls, start) ==
    LET line_no    == start + 1
        stripped   == strip_prefix(trim(LineAt(ls, start)), Chars("test"))
        q          == extract_quoted(trim_start(stripped[1]), line_no, "test name")
    IN  IF stripped = <<>>
        THEN LineErr("Line {}: test line must start with 'test'", line_no, <<>>)
        ELSE IF ~q.ok THEN q
        ELSE IF ~starts_with(trim_start(q.val.rest), <<":">>)
        THEN LineErr("Line {}: expected ':' after test name, e.g. test \"name\":", line_no, <<>>)
        ELSE test_assertions(ls, start + 1, q.val.content, <<>>, line_no)

-----------------------------------------------------------------------------
(* parse_program as a machine: one step per iteration of its `while` loop,
   and one for what follows the loop *)

\* the locals of parse_program
Locals ==
    [i |-> i, server |-> server, endpoints |-> endpoints, functions |-> functions,
     classes |-> classes, secrets |-> secrets, tests |-> tests, models |-> models,
     pending_rate_limit |-> pending_rate_limit, parsed |-> parsed]

\* `return r` (an Err, or the Ok after the loop)
Returning(s, r) == [s EXCEPT !.parsed = <<r>>]

\* the branch of the if / else-if chain that a trimmed line takes
StatementKind(trimmed) ==
    IF trimmed = <<>> \/ starts_with(trimmed, <<"#">>) THEN "skip"
    ELSE IF starts_with(trimmed, Chars("server")) THEN "server"
    ELSE IF starts_with(trimmed, Chars("@rate_limit")) THEN "rate_limit"
    ELSE IF starts_with(trimmed, Chars("endpoint")) THEN "endpoint"
    ELSE IF starts_with(trimmed, Chars("func ")) THEN "func"
    ELSE IF starts_with(trimmed, Chars("class ")) THEN "class"
    ELSE IF starts_with(trimmed, Chars("secret ")) THEN "secret"
    ELSE IF starts_with(trimmed, Chars("test ")) THEN "test"
    ELSE IF starts_with(trimmed, Chars("model ")) THEN "model"
    ELSE "unrecognized"

\* blank lines and comments
parse_program_skip(ls, s) == [s EXCEPT !.i = @ + 1]

parse_program_server_again(ls, s) ==
    LET r == parse_server_line(trim(LineAt(ls, s.i)), s.i + 1)
    IN  IF s.pending_rate_limit # <<>>
        THEN Returning(s, LineErr("Line {}: @rate_limit attribute can only be applied to an 'endpoint' declaration",
                                  s.i + 1, <<>>))
        ELSE IF ~r.ok THEN Returning(s, r)
        ELSE [s EXCEPT !.server = <<r.val>>, !.i = @ + 1]

\* the branch of `server`
parse_program_server(ls, s) ==
    LET r == parse_server_line(trim(LineAt(ls, s.i)), s.i + 1)
    IN  IF s.server # <<>>
        THEN Returning(s, LineErr("Line {}: only one 'server' declaration is allowed",
                                  s.i + 1, <<>>))
        ELSE IF s.pending_rate_limit # <<>>
        THEN Returning(s, LineErr("Line {}: @rate_limit attribute can only be applied to an 'endpoint' declaration",
                                  s.i + 1, <<>>))
        ELSE IF ~r.ok THEN Returning(s, r)
        ELSE [s EXCEPT !.server = <<r.val>>, !.i = @ + 1]

\* the branch of `@rate_limit`
parse_program_rate_limit(ls, s) ==
    LET rl == parse_rate_limit_line(trim(LineAt(ls, s.i)), s.i + 1)
    IN  IF ~rl.ok THEN Returning(s, rl)
        ELSE IF s.pending_rate_limit # <<>>
        THEN Returning(s, LineErr("Line {}: multiple @rate_limit attributes before a single endpoint",
                                  s.i + 1, <<>>))
        ELSE [s EXCEPT !.pending_rate_limit = <<rl.val>>, !.i = @ + 1]

parse_program_endpoint_keeps_pending(ls, s) ==
    Let(parse_endpoint(ls, s.i), LAMBDA r :
        IF ~r.ok THEN Returning(s, r)
        ELSE [s EXCEPT !.endpoints = Append(@, [r.val.ep EXCEPT
                                                  !.rate_limit = s.pending_rate_limit]),
                       !.i = r.val.next])

\* the branch of `endpoint`
parse_program_endpoint(ls, s) ==
    Let(parse_endpoint(ls, s.i), LAMBDA r :
        IF ~r.ok THEN Returning(s, r)
        ELSE [s EXCEPT !.endpoints = Append(@, [r.val.ep EXCEPT
                                                  !.rate_limit = s.pending_rate_limit]),
                       !.pending_rate_limit = <<>>,
                       !.i = r.val.next])

\* the check every other branch starts with
PendingErr(s, fmt) == Returning(s, LineErr(fmt, s.i + 1, <<>>))

parse_program_func_unchecked(ls, s) ==
    Let(parse_func_line(trim(LineAt(ls, s.i)), s.i + 1), LAMBDA func :
        IF ~func.ok THEN Returning(s, func)
        ELSE IF func.val.name \in DOMAIN s.functions
        THEN Returning(s, LineErr("Line {}: function '{}' already defined", s.i + 1,
                                  <<func.val.name>>))
        ELSE [s EXCEPT !.functions = hash_insert(@, func.val.name, func.val), !.i = @ + 1])

\* the branch of `func `
parse_program_func(ls, s) ==
    IF s.pending_rate_limit # <<>>
    THEN PendingErr(s, "Line {}: @rate_limit can only precede an 'endpoint' declaration")
    ELSE Let(parse_func_line(trim(LineAt(ls, s.i)), s.i + 1), LAMBDA func :
             IF ~func.ok THEN Returning(s, func)
             ELSE IF func.val.name \in DOMAIN s.functions
             THEN Returning(s, LineErr("Line {}: function '{}' already defined", s.i + 1,
                                       <<func.val.name>>))
             ELSE [s EXCEPT !.functions = hash_insert(@, func.val.name, func.val),
                            !.i = @ + 1])

\* the branch of `class `
parse_program_class(ls, s) ==
    IF s.pending_rate_limit # <<>>
    THEN PendingErr(s, "Line {}: @rate_limit can only precede an 'endpoint' declaration")
    ELSE Let(parse_class(ls, s.i), LAMBDA r :
             IF ~r.ok THEN Returning(s, r)
             ELSE IF r.val.class.name \in DOMAIN s.classes
             THEN Returning(s, LineErr("Line {}: class '{}' already defined", s.i + 1,
                                       <<r.val.class.name>>))
             ELSE [s EXCEPT !.classes = hash_insert(@, r.val.class.name, r.val.class),
                            !.i = r.val.next])

\* the branch of `secret `
parse_program_secret(ls, s) ==
    LET secret == parse_secret_line(trim(LineAt(ls, s.i)), s.i + 1)
    IN  IF s.pending_rate_limit # <<>>
        THEN PendingErr(s, "Line {}: @rate_limit can only precede an 'endpoint' declaration")
        ELSE IF ~secret.ok THEN Returning(s, secret)
        ELSE [s EXCEPT !.secrets = Append(@, secret.val), !.i = @ + 1]

\* the branch of `test `
parse_program_test(ls, s) ==
    IF s.pending_rate_limit # <<>>
    THEN PendingErr(s, "Line {}: @rate_limit cannot be applied to a 'test' block; only endpoints are supported")
    ELSE Let(parse_test(ls, s.i), LAMBDA r :
             IF ~r.ok THEN Returning(s, r)
             ELSE [s EXCEPT !.tests = Append(@, r.val.test), !.i = r.val.next])

\* the branch of `model `
parse_program_model(ls, s) ==
    IF s.pending_rate_limit # <<>>
    THEN PendingErr(s, "Line {}: @rate_limit can only precede an 'endpoint' declaration")
    ELSE Let(parse_model(ls, s.i), LAMBDA r :
             IF ~r.ok THEN Returning(s, r)
             ELSE IF r.val.model.name \in DOMAIN s.models
             THEN Returning(s, LineErr("Line {}: model '{}' already defined", s.i + 1,
                                       <<r.val.model.name>>))
             ELSE [s EXCEPT !.models = hash_insert(@, r.val.model.name, r.val.model),
                            !.i = r.val.next])

parse_program_unrecognized_zero_based(ls, s) ==
    Returning(s, LineErr("Line {}: unrecognized statement (expected 'server', 'endpoint', 'func', 'class', 'secret', 'test', 'model', or '@rate_limit')",
                         s.i, <<>>))

\* the final else
parse_program_unrecognized(ls, s) ==
    Returning(s, LineErr("Line {}: unrecognized statement (expected 'server', 'endpoint', 'func', 'class', 'secret', 'test', 'model', or '@rate_limit')",
                         s.i + 1, <<>>))

\* after the loop
parse_program_end(ls, s) ==
    IF s.pending_rate_limit # <<>>
    THEN Returning(s, Err("Dangling @rate_limit with no following 'endpoint' declaration", <<>>))
    ELSE IF s.server = <<>>
    THEN Returning(s, Err("Program must have a 'server' declaration", <<>>))
    ELSE Returning(s, Ok([server |-> s.server[1], endpoints |-> s.endpoints,
                          functions |-> s.functions, classes |-> s.classes,
                          secrets |-> s.secrets, tests |-> s.tests, models |-> s.models]))

-----------------------------------------------------------------------------
(* The sources the parses start from *)

LineCatalogue ==
    { Chars("server 8080"),
      Chars("server"),
      Chars("@rate_limit 5 60"),
      Chars("  @rate_limit(2, 9): int"),
      Chars("endpoint GET \"/a\": 1"),
      Chars("endpoint POST \"/b\":"),
      Chars("func f(a): a + 1"),
      Chars("class C:"),
      Chars("secret K = \"E\""),
      Chars("test \"t\":"),
      Chars("model M:"),
      Chars("  assert f(1) == 2"),
      Chars(""),
      Chars("  # c") }

\* longer programs: attributes and endpoints in a row, blocks, a late `server`
Programs ==
    { << Chars("server 8080"), Chars("@rate_limit 5 60"), Chars("endpoint GET \"/a\": 1"),
         Chars("endpoint GET \"/a\": 1") >>,
      << Chars("@rate_limit 5 60"), Chars(""), Chars("  # c"), Chars("func f(a): a + 1") >>,
      << Chars("server 8080"), Chars("@rate_limit 5 60"), Chars("func f(a): a + 1"),
         Chars("endpoint GET \"/a\": 1") >>,
      << Chars("  @rate_limit(2, 9): int"), Chars("  # c"), Chars("endpoint POST \"/b\":"),
         Chars(""), Chars("server"), Chars("@rate_limit 5 60"), Chars(""),
         Chars("endpoint GET \"/a\": 1"), Chars("endpoint GET \"/a\": 1"),
         Chars("server 8080") >>,
      << Chars("class C:"), Chars("  @rate_limit(2, 9): int"), Chars("model M:"),
         Chars("  @rate_limit(2, 9): int"), Chars("endpoint GET \"/a\": 1"),
         Chars("server 8080") >>,
      << Chars("endpoint GET \"/a\": 1"), Chars("func f(a): a + 1"), Chars("secret K = \"E\""),
         Chars("test \"t\":"), Chars("  assert f(1) == 2") >>,
      << Chars("server 8080"), Chars("endpoint GET \"/a\": 1"), Chars("func f(a): a + 1"),
         Chars("server 8080"), Chars("class C:") >>,
      << Chars("server 8080"), Chars("endpoint POST \"/b\":"), Chars(""), Chars("  # c"),
         Chars("  1 + 2"), Chars("func f(a): a + 1") >>,
      << Chars("server 8080"), Chars("endpoint GET \"/k\": json { \"a\": 1 }"),
         Chars("endpoint GET \"/j\": json_data + 1"), Chars("endpoint GET \"/i\":"),
         Chars("  jsonify(x)") >> }

\* the binary operators: the BinOp, its source text
OpTable ==
    { <<"Or", "or">>, <<"And", "and">>, <<"Eq", "==">>, <<"Ne", "!=">>, <<"Lt", "<">>,
      <<"Le", "<=">>, <<"Gt", ">">>, <<"Ge", ">=">>, <<"Add", "+">>, <<"Sub", "-">>,
      <<"Mul", "*">>, <<"Div", "/">> }

\* a program whose function f has the body text
FuncProgram(body) == << Chars("server 8080"), Chars("func f(a, b, c): ") \o body >>

\* func f(a, b, c): a o1 b o2 c
Chain(o1, o2) ==
    FuncProgram(Chars("a ") \o Chars(o1[2]) \o Chars(" b ") \o Chars(o2[2]) \o Chars(" c"))

ChainPrograms ==
    {Chain(o1, o2) : o1 \in OpTable, o2 \in OpTable}
    \cup {FuncProgram(Chars("2 + 3 * 4")), FuncProgram(Chars("10 - 2 - 3")),
          FuncProgram(Chars("1 < 2 == true")), FuncProgram(Chars("8 / 4 / 2"))}

Sources == SeqsUpTo(LineCatalogue, MaxLines) \cup Programs \cup ChainPrograms

-----------------------------------------------------------------------------
(* Actions of the parser *)

Running == parsed = <<>>
AtLine(kind) == Running /\ i < Len(lines) /\ StatementKind(trim(LineAt(lines, i))) = kind

InitParse ==
    /\ lines \in Sources
    /\ i = 0
    /\ server = <<>> /\ endpoints = <<>> /\ functions = <<>> /\ classes = <<>>
    /\ secrets = <<>> /\ tests = <<>> /\ models = <<>>
    /\ pending_rate_limit = <<>>
    /\ parsed = <<>>
    /\ stmts = <<>>

ApplyParse(s) ==
    /\ i' = s.i /\ server' = s.server /\ endpoints' = s.endpoints
    /\ functions' = s.functions /\ classes' = s.classes /\ secrets' = s.secrets
    /\ tests' = s.tests /\ models' = s.models
    /\ pending_rate_limit' = s.pending_rate_limit
    /\ parsed' = s.parsed
    /\ UNCHANGED <<lines, evalVars, testVars, moreVars>>

\* history: the line at i was read as a statement of the given kind
Record(kind) == stmts' = Append(stmts, [kind |-> kind, line |-> i + 1])

SkipLine ==
    AtLine("skip") /\ ApplyParse(parse_program_skip(lines, Locals)) /\ UNCHANGED stmts
ParseServer ==
    AtLine("server") /\ ApplyParse(parse_program_server(lines, Locals)) /\ Record("server")
ParseRateLimit ==
    /\ AtLine("rate_limit") /\ ApplyParse(parse_program_rate_limit(lines, Locals))
    /\ Record("rate_limit")
ParseEndpoint ==
    /\ AtLine("endpoint") /\ ApplyParse(parse_program_endpoint(lines, Locals))
    /\ Record("endpoint")
ParseFunc ==
    AtLine("func") /\ ApplyParse(parse_program_func(lines, Locals)) /\ Record("func")
ParseClass ==
    AtLine("class") /\ ApplyParse(parse_program_class(lines, Locals)) /\ Record("class")
ParseSecret ==
    AtLine("secret") /\ ApplyParse(parse_program_secret(lines, Locals)) /\ Record("secret")
ParseTest ==
    AtLine("test") /\ ApplyParse(parse_program_test(lines, Locals)) /\ Record("test")
ParseModel ==
    AtLine("model") /\ ApplyParse(parse_program_model(lines, Locals)) /\ Record("model")
Unrecognized ==
    /\ AtLine("unrecognized") /\ ApplyParse(parse_program_unrecognized(lines, Locals))
    /\ Record("unrecognized")
ParseEnd ==
    /\ Running /\ i >= Len(lines)
    /\ ApplyParse(parse_program_end(lines, Locals)) /\ UNCHANGED stmts

NextParse ==
    \/ SkipLine \/ ParseServer \/ ParseRateLimit \/ ParseEndpoint \/ ParseFunc
    \/ ParseClass \/ ParseSecret \/ ParseTest \/ ParseModel \/ Unrecognized \/ ParseEnd

-----------------------------------------------------------------------------
(* The test runner (src/tests.rs) *)

\* struct TestResult
TestResult(name, passed, fails) == [name |-> name, passed |-> passed, failures |-> fails]

\* as eval_assertion, but the value is compared as it is
eval_assertion_untrimmed(r) ==
    IF r.ok THEN Ok(r.val = Chars("true")) ELSE r

\* eval_assertion, after eval_body_expr has returned r
eval_assertion(r) ==
    IF r.ok THEN Ok(trim(r.val) = Chars("true")) ELSE r

\* as run_single_test_match, but the index is pushed as it is (from 0)
run_single_test_match_zero_based(fails, k, name, a) ==
    IF a.ok /\ a.val THEN fails
    ELSE IF a.ok
    THEN Append(fails, FormatChars(Chars("assertion {} in test '{}' evaluated to a non-true value"),
                                   <<NatToStr(k), name>>))
    ELSE Append(fails, FormatChars(Chars("assertion {} in test '{}' failed with error: {}"),
                                   <<NatToStr(k), name, Format(a.err)>>))

\* run_single_test: the match on what eval_assertion returned for assertion k (from 0)
run_single_test_match(fails, k, name, a) ==
    IF a.ok /\ a.val THEN fails
    ELSE IF a.ok
    THEN Append(fails, FormatChars(Chars("assertion {} in test '{}' evaluated to a non-true value"),
                                   <<NatToStr(k + 1), name>>))
    ELSE Append(fails, FormatChars(Chars("assertion {} in test '{}' failed with error: {}"),
                                   <<NatToStr(k + 1), name, Format(a.err)>>))

\* run_single_test: after the loop
run_single_test_end(name, fails) == TestResult(name, fails = <<>>, fails)

\* the assertions of the tests
AssertTrue      == EBinary(Num(1), "Eq", Num(1))
AssertFalse     == EBinary(ECall(n_id, <<Num(1)>>), "Eq", Num(2))
AssertPadded    == EStr(<<" ", "t", "r", "u", "e", " ">>)
AssertIfRepeat  == EIf(<< <<EBool(TRUE), ERepeat(Num(1), EBool(TRUE))>> >>, <<>>)
AssertListMap   == EBinary(EList(<<Num(1)>>), "Eq", EMap(<< <<n_a, Num(1)>> >>))
AssertMethod    == EMethodCall(n_C, n_m, <<Num(1)>>)
AssertHasK      == ECall(n_config_has, <<EStr(s_k)>>)

AssertionCatalogue ==
    {AssertTrue, AssertFalse, DivZeroEq, AssertPadded, AssertIfRepeat, AssertListMap,
     AssertMethod, Incr, AssertHasK}

n_t == <<"t">>

\* config_get("k"), config_get("k", 0)
GetK        == ECall(n_config_get, <<EStr(s_k)>>)
GetKDefault == ECall(n_config_get, <<EStr(s_k), Num(0)>>)

\* reads of an absent key, a write, reads, an overwrite, a read
StoreAssertions ==
    <<GetK, GetKDefault, AssertHasK, SetK(Num(1)), GetK, AssertHasK, SetK(Num(2)), GetKDefault>>

\* config_set("k", 1) + 1 / 0: a write, then an error
SetThenFail == EBinary(SetK(Num(1)), "Add", DivZero)

\* an evaluation that writes and fails, then reads in later evaluations
FailedWriteAssertions == <<GetK, SetThenFail, GetK, AssertHasK>>

TestCases ==
    {[name |-> n_t, assertions |-> q] : q \in SeqsUpTo(AssertionCatalogue, MaxAsserts)}
    \cup {[name |-> n_t, assertions |-> <<AssertTrue, AssertFalse, DivZeroEq, AssertPadded>>],
          [name |-> n_t, assertions |-> StoreAssertions],
          [name |-> n_t, assertions |-> FailedWriteAssertions]}

NoTest == [name |-> <<>>, assertions |-> <<>>]

\* run_single_test is between two assertions
BetweenAssertions == test_result = <<>> /\ ctrl = Finished /\ result = <<>>

\* eval_assertion: the call of eval_body_expr with the empty vars
EvalAssertion ==
    /\ BetweenAssertions /\ idx < Len(test_case.assertions)
    /\ expr' = test_case.assertions[idx + 1]
    /\ bindings' = NoBindings
    /\ ctrl' = Enter(expr', seed_env(NoBindings), <<>>)
    /\ stack' = <<>>
    /\ visits' = [p \in {<<>>} |-> 1]
    /\ outcome' = <<>>
    /\ UNCHANGED <<config, result, parseVars, testVars, moreVars>>

\* eval_body_expr has returned: the rest of eval_assertion and the match of the loop
AssertionDone ==
    /\ test_result = <<>> /\ ctrl = Finished /\ result # <<>>
    /\ idx < Len(test_case.assertions)
    /\ failures' = run_single_test_match(failures, idx, test_case.name, eval_assertion(result[1]))
    /\ idx' = idx + 1
    /\ result' = <<>>
    /\ verdicts' = Append(verdicts, [expr |-> expr, vars |-> bindings, res |-> result[1]])
    /\ UNCHANGED <<expr, bindings, ctrl, stack, config, visits, outcome, test_case, test_result,
                   parseVars, moreVars>>

\* run_single_test returns
TestDone ==
    /\ BetweenAssertions /\ idx = Len(test_case.assertions)
    /\ test_result' = <<run_single_test_end(test_case.name, failures)>>
    /\ UNCHANGED <<evalVars, parseVars, test_case, idx, failures, verdicts, moreVars>>

InitTest ==
    /\ test_case \in TestCases
    /\ idx = 0 /\ failures = <<>> /\ test_result = <<>> /\ verdicts = <<>>

NextTest == NextEval \/ EvalAssertion \/ AssertionDone \/ TestDone

-----------------------------------------------------------------------------
(* Evaluations side by side.  The HTTP server runs the handler of every
   request on one of its worker threads, and each handler calls
   eval_body_expr (respond); the evaluations share APP_CONFIG, a Mutex around
   the entries.  A thread evaluates its expression with the steps of the
   evaluator above; at config_set / config_get / config_has it takes the
   Mutex, reads or inserts, and gives the Mutex back when the MutexGuard goes
   out of scope at the end of the arm. *)

MaxThreads == 2

Unlocked == 0

\* a step of eval_expr for the position c with the activations st
eval_expr_step(c, st, cfg) ==
    CASE c.mode = "eval" ->
            (CASE c.expr.kind \in {"Number", "Str", "Bool"} -> eval_literal(c, st, cfg)
               [] c.expr.kind = "Var" -> eval_var(c, st, cfg)
               [] c.expr.kind = "Binary" -> eval_binary_enter(c, st, cfg)
               [] c.expr.kind = "Call" -> eval_call(c, st, cfg)
               [] c.expr.kind = "MethodCall" -> eval_method_call(c, st, cfg)
               [] c.expr.kind = "List" -> eval_list(c, st, cfg)
               [] c.expr.kind = "Map" -> eval_map(c, st, cfg)
               [] c.expr.kind = "If" -> eval_if(c, st, cfg)
               [] c.expr.kind = "Repeat" -> eval_repeat(c, st, cfg))
      [] c.mode = "loop" ->
            (CASE Head(st).k = "Args" -> eval_args_next(st, cfg)
               [] Head(st).k = "List" -> eval_list_next(st, cfg)
               [] Head(st).k = "Map" -> eval_map_next(st, cfg)
               [] Head(st).k = "If" -> eval_if_next(st, cfg)
               [] Head(st).k = "Repeat" -> eval_repeat_next(st, cfg))
      [] c.mode = "ret" /\ ~c.res.ok -> propagate_error(c.res, st, cfg)
      [] c.mode = "ret" /\ c.res.ok ->
            (CASE Head(st).k = "BinaryLeft" -> eval_binary_left_done(c.res.val, st, cfg)
               [] Head(st).k = "BinaryRight" -> eval_binary_right_done(c.res.val, st, cfg)
               [] Head(st).k = "Args" -> eval_args_push(c.res.val, st, cfg)
               [] Head(st).k = "Function" -> eval_function_done(c.res, st, cfg)
               [] Head(st).k = "List" -> eval_list_push(c.res.val, st, cfg)
               [] Head(st).k = "Map" -> eval_map_insert(c.res.val, st, cfg)
               [] Head(st).k = "If" /\ Head(st).phase = "cond" ->
                     eval_if_cond_done(c.res.val, st, cfg)
               [] Head(st).k = "If" /\ Head(st).phase = "body" ->
                     eval_if_body_done(c.res, st, cfg)
               [] Head(st).k = "Repeat" /\ Head(st).phase = "count" ->
                     eval_repeat_count_done(c.res.val, st, cfg)
               [] Head(st).k = "Repeat" /\ Head(st).phase = "body" ->
                     eval_repeat_body_done(c.res.val, st, cfg))

\* as mutex_free, but lock() never waits
mutex_free_always(m) == TRUE

\* Mutex::lock returns once no thread holds the Mutex
mutex_free(m) == m = Unlocked

\* as guard_drop, but the Mutex stays with the thread
guard_drop_keeps(m) == m

\* the MutexGuard goes out of scope at the end of the arm of eval_builtin
guard_drop(m) == Unlocked

\* HashMap::insert is under way: the entry of the key is there, its value is not yet whole
Partial == Str(<<"~">>)

\* the three arms of eval_builtin that call get_app_config
StoreBuiltins == {n_config_set, n_config_get, n_config_has}

\* the thread is about to call a store built-in whose argument check passes: the
\* next thing the arm does is lock.lock()
AtStore(th) ==
    /\ th.at = "run" /\ th.ctrl = AtLoop
    /\ Head(th.stack).k = "Args" /\ Head(th.stack).rest = <<>>
    /\ Head(th.stack).target = "builtin"
    /\ LET f == Head(th.stack)
       IN  \/ f.name = n_config_set /\ Len(f.out) = 2
           \/ f.name = n_config_get /\ Len(f.out) \in {1, 2}
           \/ f.name = n_config_has /\ Len(f.out) = 1

Thread(e) ==
    [expr |-> e, ctrl |-> Enter(e, seed_env(NoBindings), <<>>), stack |-> <<>>,
     at |-> "run", result |-> <<>>]

\* config_set("k", 2) + config_get("k")
SetThenGet == EBinary(SetK(Num(2)), "Add", GetK)

\* what the requests evaluate
ThreadExprs ==
    {Incr, GetK, GetKDefault, AssertHasK, SetK(Num(2)), SetThenFail, SetThenGet,
     ECall(n_config_get, <<>>), ECall(n_id, <<Incr>>)}

InitConc ==
    /\ threads \in [1..MaxThreads -> {Thread(e) : e \in ThreadExprs}]
    /\ mutex = Unlocked
    /\ reads = <<>> /\ writes = <<>>
    /\ expr = Num(0) /\ bindings = NoBindings /\ config = EmptyConfig
    /\ ctrl = Finished /\ stack = <<>>
    /\ visits = <<>> /\ outcome = <<>> /\ result = <<>>

ConcFrame ==
    UNCHANGED <<expr, bindings, ctrl, stack, visits, outcome, result, parseVars, testVars, typeVars,
                httpVars>>

\* a step of the evaluation of thread t that does not touch the store
Local(t) ==
    LET th == threads[t]
    IN  /\ th.at = "run" /\ th.ctrl # Finished /\ ~AtStore(th)
        /\ ~(th.ctrl.mode = "ret" /\ th.stack = <<>>)
        /\ LET r == eval_expr_step(th.ctrl, th.stack, config)
           IN  threads' = [threads EXCEPT ![t] = [th EXCEPT !.ctrl = r.ctrl, !.stack = r.stack]]
        /\ UNCHANGED <<config, mutex, reads, writes>>
        /\ ConcFrame

\* lock.lock(): the thread waits until the Mutex is free and takes it
Lock(t) ==
    LET th == threads[t]
    IN  /\ AtStore(th) /\ mutex_free(mutex)
        /\ mutex' = t
        /\ threads' = [threads EXCEPT ![t].at = "locked"]
        /\ UNCHANGED <<config, reads, writes>>
        /\ ConcFrame

\* cfg.entries.insert(key, value) begins
InsertBegin(t) ==
    LET th == threads[t]
        f  == Head(th.stack)
    IN  /\ th.at = "locked" /\ f.name = n_config_set
        /\ config' = config_insert(config, Display(f.out[1]), Partial)
        /\ threads' = [threads EXCEPT ![t].at = "inserting"]
        /\ UNCHANGED <<mutex, reads, writes>>
        /\ ConcFrame

\* the read or the insert of the arm, and its Ok(..)
Access(t) ==
    LET th == threads[t]
        f  == Head(th.stack)
        r  == eval_args_next(th.stack, config)
    IN  /\ \/ th.at = "locked" /\ f.name # n_config_set
           \/ th.at = "inserting"
        /\ config' = r.config
        /\ threads' = [threads EXCEPT ![t] = [th EXCEPT !.ctrl = r.ctrl, !.stack = r.stack,
                                                        !.at = "accessed"]]
        /\ reads' = IF f.name = n_config_set THEN reads
                    ELSE Append(reads, [thread |-> t, name |-> f.name, key |-> Display(f.out[1]),
                                        found |-> Display(f.out[1]) \in DOMAIN config,
                                        seen |-> Len(writes),
                                        res |-> r.ctrl.res])
        /\ writes' = IF f.name = n_config_set
                     THEN Append(writes, [thread |-> t, key |-> Display(f.out[1]), val |-> f.out[2]])
                     ELSE writes
        /\ UNCHANGED mutex
        /\ ConcFrame

\* the arm ends: the guard is dropped
Unlock(t) ==
    /\ threads[t].at = "accessed"
    /\ mutex' = guard_drop(mutex)
    /\ threads' = [threads EXCEPT ![t].at = "run"]
    /\ UNCHANGED <<config, reads, writes>>
    /\ ConcFrame

\* eval_body_expr of thread t returns
ThreadFinish(t) ==
    LET th == threads[t]
    IN  /\ th.at = "run" /\ th.ctrl.mode = "ret" /\ th.stack = <<>>
        /\ threads' = [threads EXCEPT ![t] = [th EXCEPT !.result = <<body_result(th.ctrl.res)>>,
                                                        !.ctrl = Finished]]
        /\ UNCHANGED <<config, mutex, reads, writes>>
        /\ ConcFrame

NextConc ==
    \E t \in 1..MaxThreads :
        Local(t) \/ Lock(t) \/ InsertBegin(t) \/ Access(t) \/ Unlock(t) \/ ThreadFinish(t)

-----------------------------------------------------------------------------
(* The type checker (typecheck.rs).  A Ty is one of "Number", "String",
   "Bool", "Any"; a diagnostic is the record of the json! object pushed, its
   message kept as the format string and its arguments. *)

t_number == <<"n", "u", "m", "b", "e", "r">>
t_float  == <<"f", "l", "o", "a", "t">>
t_int    == <<"i", "n", "t">>
t_integer == <<"i", "n", "t", "e", "g", "e", "r">>
t_string == <<"s", "t", "r", "i", "n", "g">>
t_str    == <<"s", "t", "r">>
t_bool   == <<"b", "o", "o", "l">>
t_boolean == <<"b", "o", "o", "l", "e", "a", "n">>
t_any    == <<"a", "n", "y">>

parse_type_name(name) ==
    LET l == to_lowercase(name)
    IN  CASE l \in {t_number, t_float, t_int, t_integer} -> "Number"
          [] l \in {t_string, t_str} -> "String"
          [] l \in {t_bool, t_boolean} -> "Bool"
          [] OTHER -> "Any"

is_assignable(actual, expected) ==
    IF expected = "Any" THEN TRUE ELSE actual = expected \/ actual = "Any"

display_ty(t) ==
    CASE t = "Number" -> t_number
      [] t = "String" -> t_string
      [] t = "Bool" -> t_bool
      [] t = "Any" -> t_any

Diag(kind, scope, name, fmt, args) ==
    [kind |-> kind, scope |-> scope, name |-> name, message |-> [fmt |-> fmt, args |-> args]]

\* FunctionTypeFile; result: <<>> (None) or <<name>> (Some)
FunctionTypeFile(params, res) == [params |-> params, result |-> res]

\* what infer_expr_type returns, and what it pushed on diags
Typed(ty, pushed) == [ty |-> ty, diags |-> pushed]

RECURSIVE infer_expr_type(_, _, _)
RECURSIVE infer_call_args(_, _, _, _, _, _)
RECURSIVE infer_branches(_, _, _)

\* Expr::Call, the loop over args.iter().zip(f_annot.params.iter()).enumerate()
infer_call_args(args, params, k, name, env, fns) ==
    IF k > Len(args) THEN <<>>
    ELSE LET expected == parse_type_name(params[k])
             actual == infer_expr_type(args[k], env, fns)
         IN  actual.diags
             \o (IF ~is_assignable(actual.ty, expected)
                 THEN <<Diag("error", "call", name,
                             "Argument {} to '{}' has type {} but annotation expects {}",
                             <<k, name, display_ty(actual.ty), display_ty(expected)>>)>>
                 ELSE <<>>)
             \o infer_call_args(args, params, k + 1, name, env, fns)

\* Expr::If, the loop over the branches: the types of the bodies
infer_branches(branches, env, fns) ==
    IF branches = <<>> THEN [tys |-> <<>>, diags |-> <<>>]
    ELSE LET cond == infer_expr_type(Head(branches)[1], env, fns)
             body == infer_expr_type(Head(branches)[2], env, fns)
             rest == infer_branches(Tail(branches), env, fns)
         IN  [tys |-> <<body.ty>> \o rest.tys, diags |-> cond.diags \o body.diags \o rest.diags]

infer_expr_type(e, env, fns) ==
    CASE e.kind = "Number" -> Typed("Number", <<>>)
      [] e.kind = "Str" -> Typed("String", <<>>)
      [] e.kind = "Bool" -> Typed("Bool", <<>>)
      [] e.kind = "Var" -> Typed(IF e.name \in DOMAIN env THEN env[e.name] ELSE "Any", <<>>)
      [] e.kind \in {"List", "Map"} -> Typed("Any", <<>>)
      [] e.kind = "Binary" ->
            IF e.op \in {"Add", "Sub", "Mul", "Div"}
            THEN LET lt == infer_expr_type(e.left, env, fns)
                     rt == infer_expr_type(e.right, env, fns)
                 IN  Typed("Number",
                           lt.diags \o rt.diags
                           \o (IF ~is_assignable(lt.ty, "Number") \/ ~is_assignable(rt.ty, "Number")
                               THEN <<Diag("warning", "expression", <<>>,
                                           "Numeric operator used with non-number operand(s)", <<>>)>>
                               ELSE <<>>))
            ELSE Typed("Bool", <<>>)
      [] e.kind = "Call" ->
            IF e.name \in DOMAIN fns
            THEN LET f_annot == fns[e.name]
                 IN  Typed(IF f_annot.result # <<>> THEN parse_type_name(f_annot.result[1]) ELSE "Any",
                           IF Len(f_annot.params) # Len(e.args)
                           THEN <<Diag("error", "call", e.name,
                                       "Call to '{}' expected {} arguments but got {}",
                                       <<e.name, Len(f_annot.params), Len(e.args)>>)>>
                           ELSE infer_call_args(e.args, f_annot.params, 1, e.name, env, fns))
            ELSE Typed("Any", <<>>)
      [] e.kind = "MethodCall" -> Typed("Any", <<>>)
      [] e.kind = "If" ->
            LET b == infer_branches(e.branches, env, fns)
                el == IF e.else_branch # <<>> THEN infer_expr_type(e.else_branch[1], env, fns)
                      ELSE Typed("Any", <<>>)
                branch_tys == b.tys \o (IF e.else_branch # <<>> THEN <<el.ty>> ELSE <<>>)
            IN  Typed(IF branch_tys # <<>> /\ \A k \in 1..Len(branch_tys) : branch_tys[k] = branch_tys[1]
                      THEN branch_tys[1] ELSE "Any",
                      b.diags \o el.diags)
      [] e.kind = "Repeat" -> infer_expr_type(e.body, env, fns)
      [] e.kind = "Try" ->
            LET try_ty == infer_expr_type(e.try_body, env, fns)
                catch_ty == IF e.catch_body # <<>> THEN infer_expr_type(e.catch_body[1], env, fns)
                            ELSE Typed("Any", <<>>)
                finally_ty == IF e.finally_body # <<>>
                              THEN infer_expr_type(e.finally_body[1], env, fns)
                              ELSE Typed("Any", <<>>)
            IN  Typed(IF try_ty.ty = catch_ty.ty THEN try_ty.ty ELSE "Any",
                      try_ty.diags \o catch_ty.diags \o finally_ty.diags)

\* the param type environment: env.insert(param_name, parse_type_name(ty_name)) over the zip
param_env(params, ty_names) ==
    [p \in {params[k] : k \in 1..Len(params)} |->
        LET last == CHOOSE k \in 1..Len(params) :
                        params[k] = p /\ \A h \in 1..Len(params) : params[h] = p => h <= k
        IN  parse_type_name(ty_names[last])]

\* the body of the loop of build_type_diagnostics for an annotated function
check_function(name, func, fns) ==
    LET annot == fns[name]
    IN  IF Len(annot.params) # Len(func.params)
        THEN <<Diag("error", "function", name,
                    "Type annotation has {} params but function '{}' has {} params",
                    <<Len(annot.params), name, Len(func.params)>>)>>
        ELSE LET body == infer_expr_type(func.body, param_env(func.params, annot.params), fns)
             IN  body.diags
                 \o (IF annot.result # <<>>
                        /\ ~is_assignable(body.ty, parse_type_name(annot.result[1]))
                     THEN <<Diag("error", "function", name,
                                 "Return type mismatch: expected {}, got {}",
                                 <<display_ty(parse_type_name(annot.result[1])),
                                   display_ty(body.ty)>>)>>
                     ELSE <<>>)

\* as build_type_diagnostics_step, but a parameter count that differs ends the loop
build_type_diagnostics_step_break(name, funcs, fns, dg, td) ==
    IF name \notin DOMAIN fns THEN [diags |-> dg, todo |-> td \ {name}]
    ELSE [diags |-> dg \o check_function(name, funcs[name], fns),
          todo |-> IF Len(fns[name].params) # Len(funcs[name].params) THEN {} ELSE td \ {name}]

\* one round of the loop over program.functions: a function without an annotation
\* is passed over, and so is the body of one whose parameter count differs
build_type_diagnostics_step(name, funcs, fns, dg, td) ==
    IF name \notin DOMAIN fns THEN [diags |-> dg, todo |-> td \ {name}]
    ELSE [diags |-> dg \o check_function(name, funcs[name], fns), todo |-> td \ {name}]

\* the programs checked: id(a): a, add(a, b): a + b, outer(y): one of the bodies
BadCall == ECall(n_id, <<EStr(<<"x">>)>>)

TypeBodies ==
    {EVar(n_y), BadCall, ECall(n_id, <<EVar(n_y)>>), ECall(n_id, <<>>),
     ECall(n_id, <<BadCall>>), ECall(n_id, <<Num(1), BadCall>>),
     EBinary(BadCall, "Add", Num(1)), EBinary(BadCall, "Eq", Num(1)),
     EBinary(EBool(TRUE), "And", BadCall),
     EList(<<BadCall>>), EMap(<<(<<n_a, BadCall>>)>>),
     ECall(n_len, <<BadCall>>), EMethodCall(n_C, n_m, <<BadCall>>),
     EIf(<<(<<BadCall, Num(1)>>)>>, <<>>), EIf(<<(<<EBool(TRUE), BadCall>>)>>, <<BadCall>>),
     ERepeat(BadCall, Num(1)), ERepeat(Num(1), BadCall),
     ETry(BadCall, <<n_e>>, <<BadCall>>, <<BadCall>>),
     EBinary(EVar(n_y), "Add", EStr(<<"x">>))}

TypePrograms ==
    {[name \in {n_id, n_add, n_outer} |->
        CASE name = n_id -> FunctionDef(n_id, <<n_a>>, EVar(n_a))
          [] name = n_add -> FunctionDef(n_add, <<n_a, n_b>>, EBinary(EVar(n_a), "Add", EVar(n_b)))
          [] name = n_outer -> FunctionDef(n_outer, <<n_y>>, body)] : body \in TypeBodies}

\* the annotations: of id (right, or with one parameter too many), of add
\* (none, or with a result that add does not have) and of outer (none, without
\* parameters, or with one)
TypeAnnotations ==
    LET ids == {FunctionTypeFile(<<t_number>>, <<t_number>>),
                FunctionTypeFile(<<t_number, t_number>>, <<t_number>>)}
        adds == {<<>>, <<FunctionTypeFile(<<t_int, t_int>>, <<t_string>>)>>}
        outers == {<<>>, <<FunctionTypeFile(<<>>, <<>>)>>}
                  \cup {<<FunctionTypeFile(<<t>>, r)>> :
                            t \in {<<"N", "u", "m", "b", "e", "r">>, t_str, <<"t", "e", "x", "t">>},
                            r \in {<<>>, <<t_number>>, <<t_bool>>}}
    IN  {[name \in {n_id} \cup (IF fa = <<>> THEN {} ELSE {n_add})
                       \cup (IF fo = <<>> THEN {} ELSE {n_outer})
            |-> CASE name = n_id -> fi [] name = n_add -> fa[1] [] name = n_outer -> fo[1]] :
         fi \in ids, fa \in adds, fo \in outers}

TypeConfigs == {<<>>, <<[functions |-> <<>>]>>} \cup {<<[functions |-> f]>> : f \in TypeAnnotations}

InitType ==
    /\ checked_program \in TypePrograms
    /\ types_cfg \in TypeConfigs
    /\ todo = DOMAIN checked_program
    /\ diags = <<>>
    /\ type_diagnostics = <<>>

TypeFrame ==
    UNCHANGED <<evalVars, parseVars, testVars, concVars, httpVars, checked_program, types_cfg>>

\* types_section() is None, or types_cfg.functions.is_empty()
NoAnnotations == IF types_cfg = <<>> THEN TRUE ELSE types_cfg[1].functions = <<>>

\* there is no types section, or it names no function: return Vec::new()
TypeNothing ==
    /\ type_diagnostics = <<>>
    /\ NoAnnotations
    /\ type_diagnostics' = <<(<<>>)>>
    /\ UNCHANGED <<todo, diags>>
    /\ TypeFrame

\* one round of `for (name, func) in &program.functions`, in the order the HashMap gives
TypeFunction ==
    /\ type_diagnostics = <<>>
    /\ ~NoAnnotations
    /\ \E name \in todo :
          LET r == build_type_diagnostics_step(name, checked_program, types_cfg[1].functions,
                                               diags, todo)
          IN  todo' = r.todo /\ diags' = r.diags
    /\ UNCHANGED type_diagnostics
    /\ TypeFrame

\* the loop is over: diags is returned
TypeReturn ==
    /\ type_diagnostics = <<>>
    /\ ~NoAnnotations
    /\ todo = {}
    /\ type_diagnostics' = <<diags>>
    /\ UNCHANGED <<todo, diags>>
    /\ TypeFrame

NextType == TypeNothing \/ TypeFunction \/ TypeReturn

-----------------------------------------------------------------------------
(* The HTTP layer (interpreter/http.rs): the handler of a GET or POST route.
   jsonwebtoken::decode is a table from tokens to what it returns under the
   configured secret; serde_json::from_str, JSONSchema::validate and the
   sanitized text of a request body are given with the body.  The endpoints
   of the model have an expression as their body (Body::TextExpr). *)

n_jwt_sub   == <<"j", "w", "t", "_", "s", "u", "b">>
n_jwt_scope == <<"j", "w", "t", "_", "s", "c", "o", "p", "e">>
n_jwt_role  == <<"j", "w", "t", "_", "r", "o", "l", "e">>
n_body      == <<"b", "o", "d", "y">>

\* Option<Vec<String>>::unwrap_or_default
unwrap_or_default(o) == IF o = <<>> THEN <<>> ELSE o[1]

\* as path_requires_auth, but a protected path is one that is listed itself
path_requires_auth_exact(path, a) ==
    IF a = <<>> THEN FALSE
    ELSE LET allow_on == unwrap_or_default(a[1].allow_missing_on)
             protected == unwrap_or_default(a[1].protected_paths)
         IN  IF \E k \in 1..Len(allow_on) : starts_with(path, allow_on[k]) THEN FALSE
             ELSE \E k \in 1..Len(protected) : path = protected[k]

path_requires_auth(path, a) ==
    IF a = <<>> THEN FALSE
    ELSE LET allow_on == unwrap_or_default(a[1].allow_missing_on)
             protected == unwrap_or_default(a[1].protected_paths)
         IN  IF \E k \in 1..Len(allow_on) : starts_with(path, allow_on[k]) THEN FALSE
             ELSE \E k \in 1..Len(protected) : starts_with(path, protected[k])

BearerPrefix == <<"B", "e", "a", "r", "e", "r", " ">>

\* the Authorization header: <<>> when the request has none
extract_bearer_token(authorization) ==
    IF authorization = <<>> THEN <<>>
    ELSE IF starts_with(authorization[1], BearerPrefix) /\ Len(authorization[1]) > Len(BearerPrefix)
    THEN <<trim(SliceFrom(authorization[1], Len(BearerPrefix)))>>
    ELSE <<>>

JwtClaims(sub, scope, role) == [sub |-> sub, scope |-> scope, role |-> role]

\* the tokens of the model: of alice (sub and role), without any of the three
\* claims, and one that does not verify
tok_alice == <<"a">>
tok_plain == <<"n">>
tok_bad   == <<"z">>

\* jsonwebtoken::decode::<JwtClaims> under the secret, HS256, validate_exp
decode(token) ==
    CASE token = tok_alice -> Ok(JwtClaims(<<Chars("alice")>>, <<>>, <<Chars("admin")>>))
      [] token = tok_plain -> Ok(JwtClaims(<<>>, <<>>, <<>>))
      [] OTHER -> Err("invalid token: {}", <<token>>)

verify_jwt(token, a) ==
    IF a[1].jwt_secret = <<>> THEN Err("JWT secret not configured (auth.jwt_secret_env)", <<>>)
    ELSE decode(token)

HttpResponse(status, body) == [status |-> status, body |-> body]

\* Ok(<<>>) is Ok(None), Ok(<<claims>>) is Ok(Some(claims)); an Err holds the response
verify_jwt_if_required(path, authorization, a) ==
    IF ~path_requires_auth(path, a) THEN Ok(<<>>)
    ELSE LET token == extract_bearer_token(authorization)
         IN  IF token = <<>>
             THEN [ok |-> FALSE, err |-> HttpResponse(401, Err("missing bearer token", <<>>).err)]
             ELSE LET v == verify_jwt(token[1], a)
                  IN  IF v.ok THEN Ok(<<v.val>>)
                      ELSE [ok |-> FALSE, err |-> HttpResponse(401, v.err)]

\* the body of a request: its text, whether serde_json::from_str takes it, whether
\* it validates against the schema of the path, and its sanitized serialization
validate_and_sanitize_body(sch, raw_body) ==
    IF sch = <<>> THEN Ok(raw_body.text)
    ELSE IF ~raw_body.json
    THEN [ok |-> FALSE, err |-> HttpResponse(400, Err("invalid_json", <<>>).err)]
    ELSE IF ~sch[1].compiles
    THEN [ok |-> FALSE, err |-> HttpResponse(500, Err("schema_compile_error", <<>>).err)]
    ELSE IF ~raw_body.valid
    THEN [ok |-> FALSE, err |-> HttpResponse(400, Err("validation_failed", <<>>).err)]
    ELSE Ok(raw_body.sanitized)

\* convert_path_for_actix and req.match_info(): the names of the :name segments
PathParamNames(path) ==
    LET parts == split(path, {"/"})
    IN  {SliceFrom(parts[k], 1) : k \in {j \in 1..Len(parts) :
                                           Len(parts[j]) > 1 /\ Head(parts[j]) = ":"}}

RECURSIVE collect_query_parts(_, _)
\* the loop over qs.split('&')
collect_query_parts(parts, map) ==
    IF parts = <<>> THEN map
    ELSE LET part == Head(parts)
             kv == splitn2(part, "=")
             key == kv[1]
             value == IF Len(kv) = 2 THEN kv[2] ELSE <<>>
         IN  IF part = <<>> \/ key = <<>> THEN collect_query_parts(Tail(parts), map)
             ELSE collect_query_parts(Tail(parts), Put(map, key, value))

collect_query_params(qs) ==
    IF qs = <<>> THEN <<>> ELSE collect_query_parts(split(qs, {"&"}), <<>>)

\* path overrides query on conflict
collect_all_vars(r) ==
    LET q == collect_query_params(r.query_string)
    IN  [k \in (DOMAIN q) \cup (DOMAIN r.match_info) |->
            IF k \in DOMAIN r.match_info THEN r.match_info[k] ELSE q[k]]

\* vars.entry(key).or_insert_with(|| value)
or_insert(map, key, value) == IF key \in DOMAIN map THEN map ELSE Put(map, key, value)

\* if let Some(v) = claim { vars.insert(key, v.clone()) }
insert_claim(map, key, claim) == IF claim = <<>> THEN map ELSE Put(map, key, claim[1])

\* the vars the handler hands to respond
handler_vars(method, r, text, claims) ==
    LET collected == collect_all_vars(r)
        with_body == IF method = "Post" THEN Put(collected, n_body, text) ELSE collected
        defaults == or_insert(or_insert(or_insert(with_body, n_jwt_sub, <<>>),
                                        n_jwt_scope, <<>>), n_jwt_role, <<>>)
    IN  IF claims = <<>> THEN defaults
        ELSE insert_claim(insert_claim(insert_claim(defaults, n_jwt_sub, claims[1].sub),
                                       n_jwt_scope, claims[1].scope),
                          n_jwt_role, claims[1].role)

p_pub   == <<"/", "p">>
p_admin == <<"/", "a">>
p_user  == <<"/", "a", "/", ":", "x">>
p_open  == <<"/", "a", "/", "o", "/", ":", "j", "w", "t", "_", "s", "u", "b">>

\* the endpoints served: bodies that read the jwt bindings on every path, and
\* the other kinds of expression on the public path
Endpoints ==
    {EndpointDecl(m, p, TextExpr(b), <<>>) :
        m \in {"Get", "Post"}, p \in {p_pub, p_user, p_open},
        b \in {EVar(n_jwt_role), EBinary(EVar(n_jwt_sub), "Add", EVar(n_x))}}
    \cup {EndpointDecl("Get", p_pub, TextExpr(b), <<>>) : b \in AssertionCatalogue}
    \cup {EndpointDecl("Post", p_pub, TextExpr(EVar(n_body)), <<>>)}

AuthConfigFile(secret, protected, allow) ==
    [jwt_secret |-> secret, protected_paths |-> protected, allow_missing_on |-> allow]

AuthSections ==
    {<<>>, <<AuthConfigFile(<<Chars("s")>>, <<>>, <<>>)>>,
     <<AuthConfigFile(<<Chars("s")>>, <<(<<p_admin>>)>>, <<>>)>>,
     <<AuthConfigFile(<<Chars("s")>>, <<(<<p_admin>>)>>, <<(<<SubSeq(p_open, 1, 4)>>)>>)>>,
     <<AuthConfigFile(<<>>, <<(<<p_admin>>)>>, <<>>)>>}

Authorizations ==
    {<<>>, <<BearerPrefix>>, <<Chars("Basic a")>>, <<BearerPrefix \o tok_alice>>,
     <<BearerPrefix \o tok_plain>>, <<BearerPrefix \o tok_bad>>}

QueryStrings ==
    {<<>>, Chars("x=1"), Chars("jwt_role=root"), Chars("jwt_sub=eve&&x=1&=2"), Chars("x")}

RequestBodies ==
    {[text |-> Chars(" 1 "), json |-> TRUE, valid |-> TRUE, sanitized |-> Chars("1")],
     [text |-> Chars("\"a\""), json |-> TRUE, valid |-> FALSE, sanitized |-> Chars("\"a\"")],
     [text |-> Chars("{"), json |-> FALSE, valid |-> FALSE, sanitized |-> <<>>]}

Schemas == {<<>>, <<[compiles |-> TRUE]>>, <<[compiles |-> FALSE]>>}

HttpRequest(authorization, qs, match_info, body) ==
    [authorization |-> authorization, query_string |-> qs, match_info |-> match_info, body |-> body]

InitHttp ==
    /\ endpoint \in Endpoints
    /\ auth \in AuthSections
    /\ \E a \in Authorizations, qs \in QueryStrings, v \in {Chars("7"), Chars("root")} :
          /\ \/ endpoint.method = "Get" /\ schema = <<>>
                 /\ req = HttpRequest(a, qs, [k \in PathParamNames(endpoint.path) |-> v], <<>>)
             \/ /\ endpoint.method = "Post" /\ schema \in Schemas
                /\ \E b \in RequestBodies :
                      req = HttpRequest(a, qs, [k \in PathParamNames(endpoint.path) |-> v], <<b>>)
    /\ claims_opt = <<>> /\ body_text = <<>>
    /\ handler = "verify"
    /\ response = <<>>
    /\ trace = <<>>

HttpFrame == UNCHANGED <<parseVars, testVars, concVars, typeVars, endpoint, auth, schema, req>>

\* verify_jwt_if_required and the match on its result
HttpVerify ==
    /\ handler = "verify"
    /\ LET r == verify_jwt_if_required(endpoint.path, req.authorization, auth)
       IN  /\ claims_opt' = IF r.ok THEN r.val ELSE claims_opt
           /\ response' = IF r.ok THEN response ELSE <<r.err>>
           /\ handler' = IF ~r.ok THEN "returned"
                         ELSE IF endpoint.method = "Post" THEN "validate" ELSE "respond"
    /\ trace' = Append(trace, "verify_jwt_if_required")
    /\ UNCHANGED <<evalVars, body_text>>
    /\ HttpFrame

\* POST: validate_and_sanitize_body and the match on its result
HttpValidate ==
    /\ handler = "validate"
    /\ LET r == validate_and_sanitize_body(schema, req.body[1])
       IN  /\ body_text' = IF r.ok THEN r.val ELSE body_text
           /\ response' = IF r.ok THEN response ELSE <<r.err>>
           /\ handler' = IF r.ok THEN "respond" ELSE "returned"
    /\ trace' = Append(trace, "validate_and_sanitize_body")
    /\ UNCHANGED <<evalVars, claims_opt>>
    /\ HttpFrame

\* the vars are put together and respond calls eval_body_expr
HttpRespond ==
    /\ handler = "respond"
    /\ expr' = endpoint.body.expr
    /\ bindings' = handler_vars(endpoint.method, req, body_text, claims_opt)
    /\ ctrl' = Enter(expr', seed_env(bindings'), <<>>)
    /\ stack' = <<>>
    /\ visits' = [p \in {<<>>} |-> 1]
    /\ outcome' = <<>>
    /\ handler' = "eval"
    /\ trace' = Append(trace, "respond")
    /\ UNCHANGED <<config, result, claims_opt, body_text, response>>
    /\ HttpFrame

\* eval_body_expr has returned: the response of respond
HttpResponded ==
    /\ handler = "eval" /\ result # <<>>
    /\ response' = <<IF result[1].ok THEN HttpResponse(200, result[1].val)
                     ELSE HttpResponse(500, result[1].err)>>
    /\ handler' = "returned"
    /\ UNCHANGED <<evalVars, claims_opt, body_text, trace>>
    /\ HttpFrame

NextHttp == NextEval \/ HttpVerify \/ HttpValidate \/ HttpRespond \/ HttpResponded

-----------------------------------------------------------------------------
(* The specifications: an evaluation, a parse, a run of a test, evaluations
   side by side, a type check, a request, each without the others *)

\* no parse is under way
ParseIdle ==
    /\ lines = <<>> /\ i = 0
    /\ server = <<>> /\ endpoints = <<>> /\ functions = <<>> /\ classes = <<>>
    /\ secrets = <<>> /\ tests = <<>> /\ models = <<>>
    /\ pending_rate_limit = <<>>
    /\ parsed = <<>>
    /\ stmts = <<>>

\* no evaluation is under way
EvalIdle ==
    /\ expr = Num(0) /\ bindings = NoBindings /\ config = EmptyConfig
    /\ ctrl = Finished /\ stack = <<>>
    /\ visits = <<>> /\ outcome = <<>> /\ result = <<>>

\* no test is under way
TestIdle ==
    /\ test_case = NoTest
    /\ idx = 0 /\ failures = <<>> /\ test_result = <<>> /\ verdicts = <<>>

\* no evaluations run side by side
ConcIdle == threads = <<>> /\ mutex = Unlocked /\ reads = <<>> /\ writes = <<>>

\* no type check is under way
TypeIdle ==
    /\ checked_program = <<>> /\ types_cfg = <<>> /\ todo = {} /\ diags = <<>>
    /\ type_diagnostics = <<>>

\* no request is being served
HttpIdle ==
    /\ endpoint = <<>> /\ auth = <<>> /\ schema = <<>> /\ req = <<>>
    /\ claims_opt = <<>> /\ body_text = <<>> /\ handler = "idle" /\ response = <<>>
    /\ trace = <<>>

MoreIdle == ConcIdle /\ TypeIdle /\ HttpIdle

vars == <<evalVars, parseVars, testVars, moreVars>>

Init == InitEval /\ ParseIdle /\ TestIdle /\ MoreIdle
Next == NextEval
Spec == Init /\ [][Next]_vars

ParseInit == InitParse /\ EvalIdle /\ TestIdle /\ MoreIdle
ParseSpec == ParseInit /\ [][NextParse]_vars

TestInit == InitTest /\ EvalIdle /\ ParseIdle /\ MoreIdle
TestSpec == TestInit /\ [][NextTest]_vars

ConcInit == InitConc /\ ParseIdle /\ TestIdle /\ TypeIdle /\ HttpIdle
ConcSpec == ConcInit /\ [][NextConc]_vars

TypeInit == InitType /\ EvalIdle /\ ParseIdle /\ TestIdle /\ ConcIdle /\ HttpIdle
TypeSpec == TypeInit /\ [][NextType]_vars

HttpInit == InitHttp /\ EvalIdle /\ ParseIdle /\ TestIdle /\ ConcIdle /\ TypeIdle
HttpSpec == HttpInit /\ [][NextHttp]_vars

\* an evaluation that runs on: eval_body_expr runs on one thread, which takes the
\* next step of the evaluator whenever there is one
\* the evaluations start from the expressions that loop, call or nest
LiveExprs ==
    CallExprs \cup ListExprs \cup MapExprs \cup IfExprs \cup RepeatExprs \cup NestedExprs
    \cup TryExprs \cup BigRepeatExprs

LiveInit == Init /\ expr \in LiveExprs
LiveSpec == LiveInit /\ [][Next]_vars /\ WF_vars(Next)

-----------------------------------------------------------------------------
(* Reading the history: the node a path names, and what is known about it *)

\* the child of node e that the path element k names
Child(e, k) ==
    CASE e.kind = "Binary" -> IF k = 1 THEN e.left ELSE e.right
      [] e.kind = "Repeat" -> IF k = 1 THEN e.count ELSE e.body
      [] e.kind = "Call"   -> IF k = 0 THEN Program.functions[e.name].body ELSE e.args[k]
      [] e.kind = "MethodCall" ->
            IF k = 0 THEN Program.classes[e.class_name].methods[e.method_name].body
            ELSE e.args[k]
      [] e.kind = "List"   -> e.items[k]
      [] e.kind = "Map"    -> e.pairs[k][2]
      [] e.kind = "If"     ->
            IF k = 2 * Len(e.branches) + 1 THEN e.else_branch[1]
            ELSE IF k % 2 = 1 THEN e.branches[(k + 1) \div 2][1]
            ELSE e.branches[k \div 2][2]

RECURSIVE NodeAt(_, _)
NodeAt(e, p) == IF p = <<>> THEN e ELSE NodeAt(Child(e, Head(p)), Tail(p))

Visited(p)   == p \in DOMAIN visits
Returned(p)  == p \in DOMAIN outcome
\* the nodes of the given kind that eval_expr entered exactly once
Once(kind)   == {p \in DOMAIN visits : visits[p] = 1 /\ NodeAt(expr, p).kind = kind}
HasResult    == result # <<>>

-----------------------------------------------------------------------------
(* C1: a Binary node evaluates its left operand and then its right operand,
   whatever the operator and whatever the left value is (no short-circuit for
   And / Or); it applies the operator to the two values only after both, and an
   error of either operand is the result of the node, so that
   `false and (1/0 == 0)` fails with the division by zero. *)
C1_BinaryEvaluatesBothOperands ==
    /\ \A p \in Once("Binary") :
          LET l == Append(p, 1)
              r == Append(p, 2)
              e == NodeAt(expr, p)
          IN  /\ Visited(r) => Returned(l) /\ outcome[l].ok
              /\ (Returned(l) /\ outcome[l].ok /\ Returned(p)) => Returned(r)
              /\ Returned(p) =>
                    /\ Returned(l) /\ visits[l] = 1
                    /\ ~outcome[l].ok => outcome[p] = outcome[l] /\ ~Visited(r)
                    /\ outcome[l].ok =>
                          /\ visits[r] = 1
                          /\ ~outcome[r].ok => outcome[p] = outcome[r]
                          /\ outcome[r].ok =>
                                outcome[p] = eval_binary(outcome[l].val, e.op, outcome[r].val)
    /\ (HasResult /\ expr = EBinary(EBool(FALSE), "And", DivZeroEq))
          => result[1] = Err("Division by zero", <<>>)

\* `false and (1/0 == 0)` has returned the error of its right operand
C1_Witness ==
    /\ HasResult
    /\ expr = EBinary(EBool(FALSE), "And", DivZeroEq)
    /\ ~result[1].ok
    /\ visits[<<2>>] = 1

-----------------------------------------------------------------------------
(* C2: inside the body of a user function or method, a variable reference
   resolves to the argument bound to that name when the name is a parameter,
   and otherwise to the value the name has in the caller's environment at the
   call site (an unknown-variable error when neither exists), at any depth of
   nesting; so getx() returns different values from call sites that bind x
   differently. *)

\* the innermost activation of eval_function
InnermostFunction ==
    LET ks == {k \in 1..Len(stack) : stack[k].k = "Function"}
    IN  stack[CHOOSE k \in ks : \A j \in ks : k <= j]

InFunction == \E k \in 1..Len(stack) : stack[k].k = "Function"

\* the argument bound to the parameter name (the last one, when a name repeats)
ArgumentFor(f, name) ==
    LET ks == {k \in 1..Len(f.func.params) : f.func.params[k] = name}
    IN  f.arg_vals[CHOOSE k \in ks : \A j \in ks : j <= k]

C2_Resolution ==
    (Entering({"Var"}) /\ InFunction) =>
        LET f    == InnermostFunction
            name == ctrl.expr.name
        IN  /\ ctrl'.mode = "ret"
            /\ ctrl'.res =
                  IF \E k \in 1..Len(f.func.params) : f.func.params[k] = name
                  THEN Ok(ArgumentFor(f, name))
                  ELSE IF name \in DOMAIN f.parent_env THEN Ok(f.parent_env[name])
                  ELSE Err("Unknown variable '{}'", <<name>>)

\* the caller's environment of the outermost call is the environment of the bindings
C2_CallSite ==
    \A k \in 1..Len(stack) :
        (stack[k].k = "Function" /\ \A j \in (k + 1)..Len(stack) : stack[j].k # "Function")
            => stack[k].parent_env = seed_env(bindings)

C2_DynamicEnvironment ==
    [][C2_Resolution /\ C2_CallSite]_vars

\* getx() + setx("q") under x = "b": the two calls of getx returned "b" and "q"
C2_Witness ==
    /\ HasResult
    /\ expr = EBinary(ECall(n_getx, <<>>), "Add", ECall(n_setx, <<EStr(<<"q">>)>>))
    /\ n_x \in DOMAIN bindings /\ bindings[n_x] = <<"b">>
    /\ result[1] = Ok(<<"b", "q">>)

-----------------------------------------------------------------------------
(* Repeat nodes in the history *)

CountOf(p) == Append(p, 1)
BodyOf(p)  == Append(p, 2)

\* the count of the Repeat at p has returned a value; Coerced is as_number of it
CountReturned(p) == Returned(CountOf(p)) /\ outcome[CountOf(p)].ok
Coerced(p)       == as_number(outcome[CountOf(p)].val)

\* the count of the Repeat at p coerced to a number that Repeat rejects / accepts
CountRejected(p) ==
    /\ CountReturned(p) /\ Coerced(p).ok
    /\ (RLt(Coerced(p).val, RInt(0)) \/ RFloor(Coerced(p).val) > 10000)
CountAccepted(p) ==
    /\ CountReturned(p) /\ Coerced(p).ok
    /\ RLe(RInt(0), Coerced(p).val) /\ RFloor(Coerced(p).val) <= 10000

-----------------------------------------------------------------------------
(* C3: a Repeat whose count coerces to a negative number, or whose floored
   count exceeds 10,000, returns an error and its body is never evaluated, not
   even once; a floored count of exactly 10,000 is accepted and 10,001 is
   rejected. *)
C3_RepeatBounds ==
    /\ \A p \in Once("Repeat") :
          CountRejected(p) =>
              /\ ~Visited(BodyOf(p))
              /\ Returned(p) => ~outcome[p].ok
              /\ ~(ctrl.mode = "loop" /\ TopIs("Repeat") /\ Head(stack).path = p)
    /\ \A k \in 1..Len(stack) :
          (stack[k].k = "Repeat" /\ stack[k].phase = "body") =>
              RLe(RInt(0), stack[k].n) /\ stack[k].steps <= 10000
    /\ (HasResult /\ expr = ERepeat(Num(10000), Incr)) => result[1].ok
    /\ (HasResult /\ expr = ERepeat(ENumber(Rat(20001, 2)), Num(1))) => result[1].ok
    /\ (HasResult /\ expr = ERepeat(Num(10001), Incr)) =>
          /\ result[1] = Err("repeat N times: N is too large (max 10_000)", <<>>)
          /\ config = EmptyConfig
    /\ (HasResult /\ expr = ERepeat(Num(-1), Incr)) =>
          result[1] = Err("repeat N times: N must be non-negative", <<>>)

\* 10,001 has been rejected with the store untouched
C3_Witness ==
    /\ HasResult
    /\ expr = ERepeat(Num(10001), Incr)
    /\ ~result[1].ok
    /\ CountRejected(<<>>)
    /\ ~Visited(<<2>>)

-----------------------------------------------------------------------------
(* C4: for a Repeat whose count coerces to n with 0 <= floor(n) <= 10,000 the
   count is evaluated exactly once, the body is then evaluated floor(n) times
   one after another, each evaluation with its side effects, and the result is
   the value of the last evaluation of the body, or the empty string when
   floor(n) = 0. *)
C4_RepeatIterations ==
    /\ \A p \in Once("Repeat") :
          CountAccepted(p) =>
              LET steps == RFloor(Coerced(p).val)
                  b     == BodyOf(p)
              IN  /\ visits[CountOf(p)] = 1
                  /\ Visited(b) => visits[b] <= steps
                  /\ Returned(p) =>
                        IF outcome[p].ok
                        THEN IF steps = 0
                             THEN ~Visited(b) /\ outcome[p] = Ok(Str(<<>>))
                             ELSE visits[b] = steps /\ outcome[p] = outcome[b]
                        ELSE Visited(b) /\ outcome[p] = outcome[b]
    /\ \A p \in Once("Repeat") : (Returned(p) /\ outcome[p].ok) => CountAccepted(p)
    /\ (HasResult /\ expr = ERepeat(Num(10000), Incr)) =>
          /\ config = [key \in {s_k} |-> Number(RInt(10000))]
          /\ result[1] = Ok(s_ok)
    /\ (HasResult /\ expr = ERepeat(Num(0), Incr)) => result[1] = Ok(<<>>)

\* repeat 2.5 times: config_set("k", config_get("k", 0) + 1) has run twice from k = 5
C4_Witness ==
    /\ HasResult
    /\ expr = ERepeat(ENumber(Rat(5, 2)), Incr)
    /\ visits[<<2>>] = 2
    /\ visits[<<1>>] = 1
    /\ s_k \in DOMAIN config /\ config[s_k] = Number(RInt(7))
    /\ result[1] = Ok(s_ok)

-----------------------------------------------------------------------------
(* C5: an If evaluates the conditions of its branches in declaration order
   and returns the evaluation of the body of the first branch whose condition
   is truthy; the conditions and bodies of the later branches and the else body
   are then never evaluated; when no condition is truthy the else body is
   evaluated if there is one, and the result is the empty string otherwise. *)

CondOf(p, k)   == Append(p, 2 * k - 1)
BranchOf(p, k) == Append(p, 2 * k)
ElseOf(p)      == Append(p, 2 * Len(NodeAt(expr, p).branches) + 1)

\* the condition of branch k of the If at p returned a value, and what as_bool makes of it
CondReturned(p, k) == Returned(CondOf(p, k)) /\ outcome[CondOf(p, k)].ok
Truthy(p, k)       == CondReturned(p, k) /\ as_bool(outcome[CondOf(p, k)].val).val
Falsy(p, k)        == CondReturned(p, k) /\ ~as_bool(outcome[CondOf(p, k)].val).val

C5_IfBranchOrder ==
    \A p \in Once("If") :
        LET e == NodeAt(expr, p)
            n == Len(e.branches)
        IN  /\ \A k \in 1..n :
                  /\ Visited(CondOf(p, k)) =>
                        visits[CondOf(p, k)] = 1 /\ \A j \in 1..(k - 1) : Falsy(p, j)
                  /\ Visited(BranchOf(p, k)) => visits[BranchOf(p, k)] = 1 /\ Truthy(p, k)
            /\ Visited(ElseOf(p)) =>
                  /\ e.else_branch # <<>> /\ visits[ElseOf(p)] = 1
                  /\ \A j \in 1..n : Falsy(p, j)
            /\ Returned(p) =>
                  \/ \E k \in 1..n :
                        /\ Truthy(p, k)
                        /\ Returned(BranchOf(p, k)) /\ outcome[p] = outcome[BranchOf(p, k)]
                  \/ \E k \in 1..n :
                        /\ Returned(CondOf(p, k)) /\ ~outcome[CondOf(p, k)].ok
                        /\ outcome[p] = outcome[CondOf(p, k)]
                  \/ /\ \A j \in 1..n : Falsy(p, j)
                     /\ IF e.else_branch # <<>>
                        THEN Returned(ElseOf(p)) /\ outcome[p] = outcome[ElseOf(p)]
                        ELSE outcome[p] = Ok(Str(<<>>))

\* an If of two branches took its first branch and left the rest alone
C5_Witness ==
    /\ HasResult
    /\ expr = EIf(<< <<EStr(<<"a">>), Num(1)>>, <<DivZero, EVar(n_y)>> >>, <<DivZero>>)
    /\ result[1] = Ok(<<"1">>)
    /\ ~Visited(<<3>>) /\ ~Visited(<<4>>) /\ ~Visited(<<5>>)

-----------------------------------------------------------------------------
(* C6: when a sub-evaluation returns an error, that error is what every
   enclosing evaluation returns, unchanged, up to eval_body_expr, which returns
   Err with exactly that message: never an Ok string built from the parts
   evaluated so far; and no expression is evaluated and no side effect happens
   after the error. *)
C6_ErrorStep ==
    ReturnsErr =>
        /\ \/ ctrl'.mode = "ret" /\ ctrl'.res = ctrl.res
           \/ ctrl' = Finished /\ result' = <<ctrl.res>>
        /\ visits' = visits
        /\ config' = config

C6_FirstErrorPropagates == [][C6_ErrorStep]_vars

\* [repeat 2 times: incr, 1/0, incr] has failed with the division by zero after two increments
C6_Witness ==
    /\ HasResult
    /\ expr = EList(<<ERepeat(Num(2), Incr), DivZero, Incr>>)
    /\ result[1] = Err("Division by zero", <<>>)
    /\ ~Visited(<<3>>)
    /\ visits[<<1, 2>>] = 2

-----------------------------------------------------------------------------
(* C7: evaluating a Try node whose try_body fails and that has a catch_body
   swallows the error: the message is bound as a string to catch_var (if
   given) in an environment derived from the current one, catch_body is
   evaluated there and its value is the result; without a catch_body the error
   propagates; when try_body succeeds catch_body is not evaluated.  Stated of
   the evaluator: a Try node that eval_expr has been entered for is evaluated
   (eval_expr has a step for it), and `try: 1/0 catch e: e` returns the
   message of the division by zero. *)
C7_TryCatchSwallowsError ==
    /\ Entering({"Try"}) => ENABLED Next
    /\ (HasResult /\ expr = ETry(DivZero, <<n_e>>, <<EVar(n_e)>>, <<>>)) =>
          result[1] = Ok(<<"D", "i", "v", "i", "s", "i", "o", "n", " ", "b", "y", " ",
                           "z", "e", "r", "o">>)

-----------------------------------------------------------------------------
(* The parse: what the history of statements says about its result.  A
   statement is a line that parse_program dispatches on; the lines of the block
   of a class, a model or a test, and the body line of an endpoint, are read by
   the statement they belong to. *)

ParsedOk  == parsed # <<>> /\ parsed[1].ok
ParsedErr == parsed # <<>> /\ ~parsed[1].ok
LastStmt  == stmts[Len(stmts)]
StmtsOf(kind) == {k \in 1..Len(stmts) : stmts[k].kind = kind}
\* the source line, blank or a comment, that the parser steps over
BlankOrComment(raw) == raw \in {Chars(""), Chars("  # c")}
\* the numbers written on an `@rate_limit` line
WrittenLimit(raw) ==
    IF raw = Chars("@rate_limit 5 60") THEN [max_requests |-> 5, window_secs |-> 60]
    ELSE [max_requests |-> 2, window_secs |-> 9]

\* the step taken while an attribute is pending
C8_PendingStep ==
    (parsed = <<>> /\ pending_rate_limit # <<>>) =>
        IF i < Len(lines) /\ stmts' = stmts
        THEN BlankOrComment(lines[i + 1]) /\ parsed' = <<>>
             /\ pending_rate_limit' = pending_rate_limit
        ELSE IF i < Len(lines) /\ LastStmt'.kind = "endpoint"
        THEN TRUE
        ELSE ParsedErr' /\ (i < Len(lines) => LastStmt'.line = i + 1)

(* C8: while an `@rate_limit` attribute is pending, parse_program steps over
   blank and comment lines only; the next statement must be an `endpoint`: on a
   `server`, `func`, `class`, `secret`, `test`, `model` or second `@rate_limit`
   statement, or at the end of the file, the parse fails with an error at once.
   So in a parse that returns a Program every `@rate_limit` statement is
   followed by an `endpoint` statement. *)
C8_RateLimitThenEndpoint ==
    [][ /\ C8_PendingStep
        /\ ParsedOk' => \A k \in StmtsOf("rate_limit")' :
                            k < Len(stmts') /\ stmts'[k + 1].kind = "endpoint" ]_vars

\* C8: an attribute, a blank line, a comment, then a `func`: the parse fails there
C8_Witness ==
    /\ lines = << Chars("@rate_limit 5 60"), Chars(""), Chars("  # c"),
                  Chars("func f(a): a + 1") >>
    /\ stmts = << [kind |-> "rate_limit", line |-> 1], [kind |-> "func", line |-> 4] >>
    /\ pending_rate_limit # <<>>
    /\ parsed = << LineErr("Line {}: @rate_limit can only precede an 'endpoint' declaration",
                           4, <<>>) >>

\* the statement of the k-th endpoint parsed so far
RECURSIVE NthOf(_, _, _)
NthOf(kind, k, from) ==
    IF stmts[from].kind = kind
    THEN IF k = 1 THEN from ELSE NthOf(kind, k - 1, from + 1)
    ELSE NthOf(kind, k, from + 1)

\* the attribute that decorates the statement j, if any
Decoration(j) ==
    IF j > 1 /\ stmts[j - 1].kind = "rate_limit"
    THEN << WrittenLimit(lines[stmts[j - 1].line]) >>
    ELSE <<>>

(* C9: an endpoint carries a rate limit if and only if the statement before it
   (blank and comment lines aside) is an `@rate_limit` line, and then with the
   numbers written on that line; attaching clears the pending attribute, so an
   attribute is pending exactly after an `@rate_limit` statement, and in a
   Program as many endpoints are rate-limited as there are `@rate_limit`
   statements; an endpoint after a decorated one has no rate limit of its own. *)
C9_RateLimitAttachedOnce ==
    /\ \A k \in 1..Len(endpoints) :
          LET j == NthOf("endpoint", k, 1)
          IN  /\ endpoints[k].rate_limit = Decoration(j)
              /\ Decoration(j) # <<>> =>
                    \A m \in (stmts[j - 1].line + 1)..(stmts[j].line - 1) :
                        BlankOrComment(lines[m])
    /\ parsed = <<>> =>
          (pending_rate_limit # <<>> <=> (stmts # <<>> /\ LastStmt.kind = "rate_limit"))
    /\ ParsedOk =>
          /\ parsed[1].val.endpoints = endpoints
          /\ Len(endpoints) = Cardinality(StmtsOf("endpoint"))
          /\ Cardinality({k \in 1..Len(endpoints) : endpoints[k].rate_limit # <<>>})
                = Cardinality(StmtsOf("rate_limit"))
    /\ (ParsedOk /\ lines = << Chars("server 8080"), Chars("@rate_limit 5 60"),
                               Chars("endpoint GET \"/a\": 1"),
                               Chars("endpoint GET \"/a\": 1") >>) =>
          /\ endpoints[1].rate_limit = << [max_requests |-> 5, window_secs |-> 60] >>
          /\ endpoints[2].rate_limit = <<>>

\* C9: two attributes with skipped lines after them, three endpoints: a Program
\* whose first two endpoints are limited as written and whose third is not
C9_Witness ==
    /\ ParsedOk
    /\ Len(lines) = 10
    /\ Len(parsed[1].val.endpoints) = 3
    /\ parsed[1].val.endpoints[1].rate_limit = << [max_requests |-> 2, window_secs |-> 9] >>
    /\ parsed[1].val.endpoints[2].rate_limit = << [max_requests |-> 5, window_secs |-> 60] >>
    /\ parsed[1].val.endpoints[3].rate_limit = <<>>

(* C10: parse_program returns a Program only when exactly one statement is a
   `server` declaration: a second one is rejected with an error naming its line,
   whatever came between the two, and a source without one is rejected with
   "Program must have a 'server' declaration" when every statement was valid. *)
C10_ExactlyOneServer ==
    /\ ParsedOk => Cardinality(StmtsOf("server")) = 1
    /\ Cardinality(StmtsOf("server")) >= 2 =>
          /\ Cardinality(StmtsOf("server")) = 2
          /\ LastStmt.kind = "server"
          /\ parsed = << LineErr("Line {}: only one 'server' declaration is allowed",
                                 LastStmt.line, <<>>) >>
    /\ (parsed # <<>> /\ i >= Len(lines) /\ StmtsOf("server") = {}
            /\ pending_rate_limit = <<>>) =>
          parsed = << Err("Program must have a 'server' declaration", <<>>) >>

\* C10: a second `server` line after an endpoint and a function: rejected at line 4
C10_Witness ==
    /\ Len(lines) = 5
    /\ [k \in 1..Len(stmts) |-> stmts[k].kind] = <<"server", "endpoint", "func", "server">>
    /\ Len(endpoints) = 1 /\ DOMAIN functions # {}
    /\ Format(parsed[1].err) = Chars("Line 4: only one 'server' declaration is allowed")

-----------------------------------------------------------------------------
\* the message starts with `Line n:` or `Line n (`
NamesLine(msg, n) ==
    \/ starts_with(msg, Chars("Line ") \o NatToStr(n) \o Chars(":"))
    \/ starts_with(msg, Chars("Line ") \o NatToStr(n) \o Chars(" ("))

(* C11, as it stands: every error returned by parse_program has the form
   `Line N[ (context)]: message` with N the number of a line of the source,
   the errors for a dangling `@rate_limit` and for a missing `server`
   included. *)
C11_EveryErrorNamesLine ==
    ParsedErr => \E n \in 1..Len(lines) : NamesLine(Format(parsed[1].err), n)

(* C11, amended: an error returned from inside the loop of parse_program has
   the form `Line N[ (context)]: message`, N being the 1-based number of the
   line of the failing statement or of a later line that the statement reads (a
   line of its block, the body line of an endpoint), and the line of the
   statement itself for `server`, `@rate_limit`, `func`, `secret` and
   unrecognized lines; the two errors raised after the loop (a dangling
   `@rate_limit`, no `server` declaration) name no line. *)
C11_LoopErrorsNameLine ==
    ParsedErr =>
        LET msg == Format(parsed[1].err)
        IN  IF i < Len(lines)
            THEN /\ LastStmt.line = i + 1
                 /\ \E n \in (i + 1)..Len(lines) : NamesLine(msg, n)
                 /\ LastStmt.kind \in {"server", "rate_limit", "func", "secret", "unrecognized"}
                       => NamesLine(msg, i + 1)
            ELSE /\ msg \in {Chars("Dangling @rate_limit with no following 'endpoint' declaration"),
                              Chars("Program must have a 'server' declaration")}
                 /\ \A n \in 0..(Len(lines) + 1) : ~NamesLine(msg, n)

\* C11: an endpoint whose body, on the next line, is no expression: the error names line 2
\* and its context
C11_Witness ==
    /\ ParsedErr
    /\ lines = << Chars("endpoint POST \"/b\":"), Chars("server 8080") >>
    /\ i = 0
    /\ Format(parsed[1].err)
          = Chars("Line 2 (body expression): Unexpected tokens after end of expression")

-----------------------------------------------------------------------------
\* an `endpoint` line with nothing after its colon
HeaderOnly(raw) == raw = Chars("endpoint POST \"/b\":")
\* the lines after line n that are neither blank nor a comment
BodyCandidates(n) == {m \in (n + 1)..Len(lines) : ~BlankOrComment(lines[m])}
\* the first of them
BodyLine(n) == CHOOSE m \in BodyCandidates(n) : \A k \in BodyCandidates(n) : m <= k

\* the step that reads an `endpoint` line with nothing after its colon
C12_EndpointStep ==
    (parsed = <<>> /\ i < Len(lines) /\ HeaderOnly(lines[i + 1])
        /\ stmts' = Append(stmts, [kind |-> "endpoint", line |-> i + 1])) =>
       IF BodyCandidates(i + 1) = {}
       THEN parsed' = << LineErr("Line {}: endpoint declaration missing body expression after ':'",
                                 i + 1, <<>>) >>
       ELSE IF parsed' = <<>>
       THEN /\ i' = BodyLine(i + 1)
            /\ Len(endpoints') = Len(endpoints) + 1
            /\ lines[BodyLine(i + 1)] = Chars("  1 + 2") =>
                  endpoints'[Len(endpoints')].body
                    = TextExpr(EBinary(ENumber(RInt(1)), "Add", ENumber(RInt(2))))
            /\ lines[BodyLine(i + 1)] = Chars("server") =>
                  endpoints'[Len(endpoints')].body = TextExpr(EVar(Chars("server")))
       ELSE ParsedErr' /\ NamesLine(Format(parsed'[1].err), BodyLine(i + 1))

(* C12: for an `endpoint` line with nothing after its colon the next line that
   is neither blank nor a comment is parsed as the body; the top-level dispatch
   resumes at the line after it, so the body line is never a statement of its
   own; if there is no such line the parse fails with "missing body
   expression" at the line of the endpoint. *)
C12_BodyOnNextLine ==
    [][ /\ C12_EndpointStep
        /\ \A k \in 1..Len(stmts') :
              (stmts'[k].kind = "endpoint" /\ HeaderOnly(lines[stmts'[k].line])
                 /\ BodyCandidates(stmts'[k].line) # {}) =>
                \A m \in 1..Len(stmts') : stmts'[m].line # BodyLine(stmts'[k].line) ]_vars

\* C12: the body `1 + 2` found two skipped lines after the header, and the `func` after it
\* read as the next statement
C12_Witness ==
    /\ ParsedOk
    /\ Len(lines) = 6
    /\ lines[2] = Chars("endpoint POST \"/b\":") /\ lines[5] = Chars("  1 + 2")
    /\ stmts = << [kind |-> "server", line |-> 1], [kind |-> "endpoint", line |-> 2],
                  [kind |-> "func", line |-> 6] >>
    /\ parsed[1].val.endpoints[1].body
          = TextExpr(EBinary(ENumber(RInt(1)), "Add", ENumber(RInt(2))))

-----------------------------------------------------------------------------
\* the endpoints parsed so far that have the given path
WithPath(path) == {k \in 1..Len(endpoints) : endpoints[k].path = Chars(path)}

(* C13: an endpoint body is stored as raw JSON text exactly when its text
   starts with the token `json`: `json { "a": 1 }` is stored as the raw text
   `{ "a": 1 }`, while `json_data + 1` and `jsonify(x)`, whose first identifier
   only begins with the letters json, are parsed by the expression parser and
   stored as the expressions json_data + 1 and jsonify(x). *)
C13_JsonTokenOnly ==
    /\ \A k \in WithPath("/k") : endpoints[k].body = JsonRaw(Chars("{ \"a\": 1 }"))
    /\ \A k \in WithPath("/j") :
          endpoints[k].body
            = TextExpr(EBinary(EVar(Chars("json_data")), "Add", ENumber(RInt(1))))
    /\ \A k \in WithPath("/i") :
          endpoints[k].body = TextExpr(ECall(Chars("jsonify"), <<EVar(Chars("x"))>>))

-----------------------------------------------------------------------------
(* C14: a Call whose name is a user function runs the user function, also when
   a built-in has the same name (len) and also from inside another function
   (measure); a built-in runs only when no user function has the name (upper,
   also from inside loud), and a name that is neither yields the error
   "Undefined function '<name>'". *)

\* the arguments of the Call at the head of the stack have all been evaluated
CallArgsDone ==
    /\ LoopOf("Args")
    /\ Head(stack).rest = <<>>
    /\ NodeAt(expr, Head(stack).path).kind = "Call"

\* the names the match of eval_builtin knows
IsBuiltin(name) ==
    eval_builtin(name, <<>>, <<>>).res # Err("Undefined function '{}'", <<name>>)

C14_Dispatch ==
    CallArgsDone =>
        LET f    == Head(stack)
            name == NodeAt(expr, f.path).name
        IN  IF name \in DOMAIN Program.functions
            THEN \/ /\ Len(f.out) = Len(Program.functions[name].params)
                    /\ ctrl' = Enter(Program.functions[name].body, ctrl'.env, Append(f.path, 0))
                    /\ TopIs("Function")' /\ Head(stack').func = Program.functions[name]
                 \/ /\ Len(f.out) # Len(Program.functions[name].params)
                    /\ ctrl'.mode = "ret" /\ ~ctrl'.res.ok
                    /\ ctrl'.res.err.fmt = "Function '{}' expected {} arguments, got {}"
            ELSE /\ ctrl' = Return(eval_builtin(name, f.out, config).res, f.path)
                 /\ stack' = Tail(stack)
                 /\ ~IsBuiltin(name) => ctrl'.res = Err("Undefined function '{}'", <<name>>)

C14_Results ==
    HasResult =>
        /\ expr = ECall(n_len, <<EStr(<<"a", "b">>)>>) => result[1] = Ok(<<"a", "b", "!">>)
        /\ expr = ECall(n_measure, <<EStr(<<"a", "b">>)>>)
              => result[1] = Ok(<<"a", "b", "!">>)
        /\ expr = ECall(n_loud, <<EStr(<<"a", "B">>)>>) => result[1] = Ok(<<"A", "B">>)
        /\ expr = ECall(n_nope, <<>>) => result[1] = Err("Undefined function '{}'", <<n_nope>>)

C14_UserFunctionFirst ==
    [][C14_Dispatch /\ C14_Results']_vars

\* measure("ab") has returned "ab!": the len it calls is the user function
C14_Witness ==
    /\ HasResult
    /\ expr = ECall(n_measure, <<EStr(<<"a", "b">>)>>)
    /\ result[1] = Ok(<<"a", "b", "!">>)
    /\ visits[<<0, 0>>] = 1

-----------------------------------------------------------------------------
(* C15: a call of a user function or of a class method with a number of
   arguments different from the number of parameters returns the error
   "Function '<name>' expected <n> arguments, got <m>" (once the arguments
   have been evaluated without error) and the body is never evaluated; the
   body is entered only when the two numbers are equal, and then in an
   environment where the i-th parameter has the value of the i-th argument
   (of parameters that share a name, the last is the one the body sees). *)

\* the calls in the history whose callee exists: Call of a user function,
\* MethodCall of a method of a class
ResolvedCalls ==
    {p \in DOMAIN visits :
        LET e == NodeAt(expr, p)
        IN  \/ e.kind = "Call" /\ e.name \in DOMAIN Program.functions
            \/ /\ e.kind = "MethodCall"
               /\ e.class_name \in DOMAIN Program.classes
               /\ e.method_name \in DOMAIN Program.classes[e.class_name].methods}

CalleeOf(e) ==
    IF e.kind = "Call" THEN Program.functions[e.name]
    ELSE Program.classes[e.class_name].methods[e.method_name]

ArgsAllOk(p) ==
    \A k \in 1..Len(NodeAt(expr, p).args) :
        Returned(Append(p, k)) /\ outcome[Append(p, k)].ok

C15_Arity ==
    \A p \in ResolvedCalls :
        LET e     == NodeAt(expr, p)
            func  == CalleeOf(e)
            body  == Append(p, 0)
        IN  /\ Visited(body) => Len(e.args) = Len(func.params) /\ ArgsAllOk(p)
            /\ (Returned(p) /\ ArgsAllOk(p) /\ Len(e.args) # Len(func.params)) =>
                  /\ outcome[p] = Err("Function '{}' expected {} arguments, got {}",
                                      <<func.name, NatToStr(Len(func.params)),
                                        NatToStr(Len(e.args))>>)
                  /\ ~Visited(body)
            /\ (Returned(p) /\ ArgsAllOk(p) /\ Len(e.args) = Len(func.params))
                  => Returned(body) /\ outcome[p] = outcome[body]

\* the step that enters the body of a callee binds the parameters to the arguments
C15_Binding ==
    (LoopOf("Args") /\ Head(stack).rest = <<>> /\ Head(stack).target = "function"
        /\ ctrl'.mode = "eval") =>
        LET f    == Head(stack)
            func == CalleeOf(NodeAt(expr, f.path))
        IN  /\ ctrl'.expr = func.body
            /\ Len(f.out) = Len(func.params)
            /\ \A k \in 1..Len(func.params) :
                  /\ f.out[k] = outcome[Append(f.path, k)].val
                  /\ (\A j \in (k + 1)..Len(func.params) : func.params[j] # func.params[k])
                        => /\ func.params[k] \in DOMAIN ctrl'.env
                           /\ ctrl'.env[func.params[k]] = f.out[k]

C15_ArityChecked ==
    [][C15_Arity' /\ C15_Binding]_vars

\* C.m() has returned the arity error of m, and the body of m was not entered
C15_Witness ==
    /\ HasResult
    /\ expr = EMethodCall(n_C, n_m, <<>>)
    /\ result[1] = Err("Function '{}' expected {} arguments, got {}", <<n_m, <<"1">>, <<"0">>>>)
    /\ ~Visited(<<0>>)

-----------------------------------------------------------------------------
(* C16: for every pair of values, == compares the two numbers when both are
   Number, the two booleans when both are Bool, and otherwise the display
   strings of the operands (Number 1 equals String "1", Bool true equals
   String "true"); != returns the negation of == on the same operands, both
   give the same result with the operands exchanged, and neither returns an
   error. *)

\* the right operand of the Binary at the head of the stack has returned a value
ApplyingOp(ops) == ReturnsOk /\ TopIs("BinaryRight") /\ Head(stack).op \in ops

C16_Step ==
    ApplyingOp({"Eq", "Ne"}) =>
        LET l    == Head(stack).lv
            r    == ctrl.res.val
            op   == Head(stack).op
            same == IF l.t = "Number" /\ r.t = "Number" THEN l.n = r.n
                    ELSE IF l.t = "Bool" /\ r.t = "Bool" THEN l.b = r.b
                    ELSE Display(l) = Display(r)
        IN  /\ ctrl' = Return(Ok(Bool(IF op = "Eq" THEN same ELSE ~same)), Head(stack).path)
            /\ eval_binary(r, op, l) = ctrl'.res
            /\ eval_binary(l, "Ne", r) = Ok(Bool(~eval_binary(l, "Eq", r).val.b))

C16_Pinned ==
    HasResult =>
        /\ expr = EBinary(Num(1), "Eq", EStr(<<"1">>)) => result[1] = Ok(<<"t", "r", "u", "e">>)
        /\ expr = EBinary(EStr(<<"t", "r", "u", "e">>), "Ne", EBool(TRUE))
              => result[1] = Ok(<<"f", "a", "l", "s", "e">>)
        /\ expr = EBinary(EStr(<<"1", ".", "0">>), "Eq", Num(1))
              => result[1] = Ok(<<"f", "a", "l", "s", "e">>)

C16_Equality ==
    [][C16_Step /\ C16_Pinned']_vars

\* true == "true" has been evaluated to true
C16_Witness ==
    /\ HasResult
    /\ expr = EBinary(EBool(TRUE), "Eq", EStr(<<"t", "r", "u", "e">>))
    /\ outcome[<<1>>] = Ok(Bool(TRUE))
    /\ outcome[<<2>>] = Ok(Str(<<"t", "r", "u", "e">>))
    /\ result[1] = Ok(<<"t", "r", "u", "e">>)

-----------------------------------------------------------------------------
(* C17: + returns the sum of the two numbers only when both operands are
   Number values; in every other combination, two numeric-looking strings
   included, it returns the concatenation of the display strings of the
   operands (bindings "2" and "3" give "23") and never an error, whereas
   -, * and / coerce the same String operands to numbers. *)

C17_Step ==
    /\ ApplyingOp({"Add"}) =>
          LET l == Head(stack).lv
              r == ctrl.res.val
          IN  ctrl' = Return(IF l.t = "Number" /\ r.t = "Number"
                             THEN Ok(Number(RAdd(l.n, r.n)))
                             ELSE Ok(Str(Display(l) \o Display(r))), Head(stack).path)
    /\ ApplyingOp({"Sub", "Mul", "Div"}) =>
          LET l  == Head(stack).lv
              r  == ctrl.res.val
              op == Head(stack).op
              a  == as_number(l)
              b  == as_number(r)
          IN  /\ ctrl'.mode = "ret"
              /\ (a.ok /\ b.ok) =>
                    ctrl'.res = CASE op = "Sub" -> Ok(Number(RSub(a.val, b.val)))
                                  [] op = "Mul" -> Ok(Number(RMul(a.val, b.val)))
                                  [] op = "Div" -> IF b.val = RInt(0)
                                                   THEN Err("Division by zero", <<>>)
                                                   ELSE Ok(Number(RDiv(a.val, b.val)))
              /\ ~(a.ok /\ b.ok) => ~ctrl'.res.ok

C17_Pinned ==
    (HasResult /\ bindings = TwoThree) =>
        /\ expr = EBinary(EVar(n_x), "Add", EVar(n_y)) => result[1] = Ok(<<"2", "3">>)
        /\ expr = EBinary(EVar(n_x), "Add", Num(2)) => result[1] = Ok(<<"2", "2">>)
        /\ expr = EBinary(Num(2), "Add", Num(2)) => result[1] = Ok(<<"4">>)
        /\ expr = EBinary(EVar(n_x), "Sub", EVar(n_y)) => result[1] = Ok(<<"-", "1">>)
        /\ expr = EBinary(EVar(n_x), "Mul", EVar(n_y)) => result[1] = Ok(<<"6">>)

C17_AddConcatenates ==
    [][C17_Step /\ C17_Pinned']_vars

\* x + y under the bindings x = "2", y = "3" has been evaluated to "23"
C17_Witness ==
    /\ HasResult
    /\ bindings = TwoThree
    /\ expr = EBinary(EVar(n_x), "Add", EVar(n_y))
    /\ outcome[<<1>>] = Ok(Str(<<"2">>))
    /\ outcome[<<2>>] = Ok(Str(<<"3">>))
    /\ result[1] = Ok(<<"2", "3">>)

-----------------------------------------------------------------------------
(* C18: a List or Map literal evaluates its element / value expressions in
   source order; an error of one of them is the result of the literal and the
   later ones are not evaluated; otherwise the result is the JSON text of the
   array / object in which a String value stands as the JSON value it parses
   to when it parses as JSON, and as a JSON string otherwise (so ["2", "a"]
   yields [2,"a"]), and in which a key that a Map repeats has the value of its
   last occurrence. *)

\* the JSON text that stands for the value v in a literal
EmbeddedText(v) ==
    CASE v.t = "Number" -> json_to_string(JFloat(v.n))
      [] v.t = "Bool"   -> Display(v)
      [] v.t = "Str"    ->
            IF json_from_str(v.s) # <<>> THEN json_to_string(json_from_str(v.s)[1])
            ELSE <<"\"">> \o v.s \o <<"\"">>

\* the element expressions of the List or Map at p
ElementCount(p) ==
    LET e == NodeAt(expr, p)
    IN  IF e.kind = "List" THEN Len(e.items) ELSE Len(e.pairs)

\* the elements of the literal at p are evaluated one after another, up to the first error
InSourceOrder(p) ==
    /\ \A k \in 2..ElementCount(p) :
          Visited(Append(p, k)) => Returned(Append(p, k - 1)) /\ outcome[Append(p, k - 1)].ok
    /\ \A k \in 1..ElementCount(p) : Visited(Append(p, k)) => visits[Append(p, k)] = 1

\* the literal at p has returned the error of its k-th element
AbortedAt(p, k) ==
    /\ Returned(Append(p, k)) /\ ~outcome[Append(p, k)].ok
    /\ outcome[p] = outcome[Append(p, k)]
    /\ \A j \in (k + 1)..ElementCount(p) : ~Visited(Append(p, j))

AllElementsOk(p) ==
    \A k \in 1..ElementCount(p) : Returned(Append(p, k)) /\ outcome[Append(p, k)].ok

\* the texts `"key":value` of the Map at p, one for each key, with the value of
\* the last pair that has the key
MemberTexts(p) ==
    LET pairs == NodeAt(expr, p).pairs
        last  == {k \in 1..Len(pairs) : \A j \in (k + 1)..Len(pairs) : pairs[j][1] # pairs[k][1]}
    IN  {<<"\"">> \o pairs[k][1] \o <<"\"", ":">> \o EmbeddedText(outcome[Append(p, k)].val)
            : k \in last}

C18_Lists ==
    \A p \in Once("List") :
        /\ InSourceOrder(p)
        /\ Returned(p) =>
              \/ \E k \in 1..ElementCount(p) : AbortedAt(p, k)
              \/ /\ AllElementsOk(p)
                 /\ outcome[p] =
                       Ok(Str(<<"[">>
                              \o JoinWith([k \in 1..ElementCount(p) |->
                                              EmbeddedText(outcome[Append(p, k)].val)], <<",">>)
                              \o <<"]">>))

C18_Maps ==
    \A p \in Once("Map") :
        /\ InSourceOrder(p)
        /\ Returned(p) =>
              \/ \E k \in 1..ElementCount(p) : AbortedAt(p, k)
              \/ /\ AllElementsOk(p)
                 /\ LET texts == MemberTexts(p)
                         n     == Cardinality(texts)
                     IN  \E q \in [1..n -> texts] :
                            /\ \A a, b \in 1..n : a # b => q[a] # q[b]
                            /\ outcome[p] = Ok(Str(<<"{">> \o JoinWith(q, <<",">>) \o <<"}">>))

C18_Pinned ==
    HasResult =>
        /\ expr = EList(<<EStr(<<"2">>), EStr(<<"a">>)>>)
              => result[1] = Ok(<<"[", "2", ",", "\"", "a", "\"", "]">>)
        /\ expr = EMap(<<(<<n_a, Num(1)>>), (<<n_a, EStr(<<"2">>)>>)>>)
              => result[1] = Ok(<<"{", "\"", "a", "\"", ":", "2", "}">>)

C18_Literals ==
    C18_Lists /\ C18_Maps /\ C18_Pinned

\* ["2", "a"] has been evaluated to [2,"a"]
C18_Witness ==
    /\ HasResult
    /\ expr = EList(<<EStr(<<"2">>), EStr(<<"a">>)>>)
    /\ outcome[<<1>>] = Ok(Str(<<"2">>))
    /\ outcome[<<2>>] = Ok(Str(<<"a">>))
    /\ result[1] = Ok(<<"[", "2", ",", "\"", "a", "\"", "]">>)

-----------------------------------------------------------------------------
(* C19: parse_expr groups the binary operators by level, from loosest to
   tightest: or, and, comparison, additive, multiplicative, and operators of one
   level associate to the left: a o1 b o2 c is a o1 (b o2 c) when o2 binds
   tighter than o1 and (a o1 b) o2 c otherwise; so 2 + 3 * 4 evaluates to 14,
   10 - 2 - 3 to 5, a or b and c is a or (b and c), and 1 < 2 == true is
   (1 < 2) == true. *)

Level(op) ==
    CASE op = "Or" -> 1
      [] op = "And" -> 2
      [] op \in {"Eq", "Ne", "Lt", "Le", "Gt", "Ge"} -> 3
      [] op \in {"Add", "Sub"} -> 4
      [] op \in {"Mul", "Div"} -> 5

\* the tree a textbook grammar with these levels gives to x o1 y o2 z
Grouped(x, o1, y, o2, z) ==
    IF Level(o2) > Level(o1) THEN EBinary(x, o1, EBinary(y, o2, z))
    ELSE EBinary(EBinary(x, o1, y), o2, z)

RECURSIVE Folded(_)
\* the value of a tree of literals, as eval_expr computes it with eval_binary
Folded(e) ==
    CASE e.kind = "Number" -> Ok(Number(e.n))
      [] e.kind = "Bool"   -> Ok(Bool(e.b))
      [] e.kind = "Binary" ->
            LET l == Folded(e.left)
                r == Folded(e.right)
            IN  IF ~l.ok THEN l ELSE IF ~r.ok THEN r ELSE eval_binary(l.val, e.op, r.val)

\* parse_program has returned for a program of one function f
ParsedFunc == parsed # <<>> /\ Len(lines) = 2 /\ lines \in ChainPrograms

BodyOfF == functions[Chars("f")].body

LitNum(k) == ENumber(RInt(k))

C19_Precedence ==
    ParsedFunc =>
        /\ ParsedOk
        /\ Chars("f") \in DOMAIN functions
        /\ \A o1, o2 \in OpTable :
              lines = Chain(o1, o2)
                  => BodyOfF = Grouped(EVar(n_a), o1[1], EVar(n_b), o2[1], EVar(<<"c">>))
        /\ lines = FuncProgram(Chars("2 + 3 * 4"))
              => /\ BodyOfF = EBinary(LitNum(2), "Add", EBinary(LitNum(3), "Mul", LitNum(4)))
                 /\ Folded(BodyOfF) = Ok(Number(RInt(14)))
        /\ lines = FuncProgram(Chars("10 - 2 - 3"))
              => /\ BodyOfF = EBinary(EBinary(LitNum(10), "Sub", LitNum(2)), "Sub", LitNum(3))
                 /\ Folded(BodyOfF) = Ok(Number(RInt(5)))
        /\ lines = FuncProgram(Chars("8 / 4 / 2")) => Folded(BodyOfF) = Ok(Number(RInt(1)))
        /\ lines = FuncProgram(Chars("1 < 2 == true"))
              => BodyOfF = EBinary(EBinary(LitNum(1), "Lt", LitNum(2)), "Eq", EBool(TRUE))
        /\ lines = Chain(<<"Or", "or">>, <<"And", "and">>)
              => BodyOfF = EBinary(EVar(n_a), "Or", EBinary(EVar(n_b), "And", EVar(<<"c">>)))

\* `func f(a, b, c): 10 - 2 - 3` has been parsed: the body is (10 - 2) - 3
C19_Witness ==
    /\ ParsedFunc /\ ParsedOk
    /\ lines = FuncProgram(Chars("10 - 2 - 3"))
    /\ BodyOfF = EBinary(EBinary(LitNum(10), "Sub", LitNum(2)), "Sub", LitNum(3))
    /\ Folded(BodyOfF) = Ok(Number(RInt(5)))

-----------------------------------------------------------------------------
(* C20: run_single_test evaluates every assertion of the test case, in order,
   each with an empty binding map, and does not stop at a failure; the test
   passes exactly when every assertion evaluates without error to a string
   whose trimmed form is `true`; every assertion that does not adds exactly one
   failure, which names its index (from 1) and the test: "assertion <k> in test
   '<name>' evaluated to a non-true value", or "... failed with error: <message>"
   when the evaluation returned an error. *)

Returned20 == test_result # <<>>

AssertionPasses(v) == v.res.ok /\ trim(v.res.val) = Chars("true")

\* the failure of assertion k of the test of that name, whose evaluation gave r
FailureOf(k, name, r) ==
    Chars("assertion ") \o NatToStr(k) \o Chars(" in test '") \o name
    \o (IF r.ok THEN Chars("' evaluated to a non-true value")
        ELSE Chars("' failed with error: ") \o Format(r.err))

RECURSIVE FailuresUpTo(_)
\* the failures of the first k assertions, in order
FailuresUpTo(k) ==
    IF k = 0 THEN <<>>
    ELSE IF AssertionPasses(verdicts[k]) THEN FailuresUpTo(k - 1)
    ELSE Append(FailuresUpTo(k - 1), FailureOf(k, test_case.name, verdicts[k].res))

C20_Pinned ==
    test_case.assertions = <<AssertTrue, AssertFalse, DivZeroEq, AssertPadded>> =>
        test_result[1] =
            TestResult(n_t, FALSE,
                       << Chars("assertion 2 in test 't' evaluated to a non-true value"),
                          Chars("assertion 3 in test 't' failed with error: Division by zero") >>)

C20_RunSingleTest ==
    /\ Len(verdicts) = idx /\ idx <= Len(test_case.assertions)
    /\ \A k \in 1..Len(verdicts) :
          verdicts[k].expr = test_case.assertions[k] /\ verdicts[k].vars = <<>>
    /\ failures = FailuresUpTo(Len(verdicts))
    /\ Returned20 =>
          /\ Len(verdicts) = Len(test_case.assertions)
          /\ test_result[1].name = test_case.name
          /\ test_result[1].passed <=> \A k \in 1..Len(verdicts) : AssertionPasses(verdicts[k])
          /\ test_result[1].failures = failures
          /\ Len(failures) = Cardinality({k \in 1..Len(verdicts) : ~AssertionPasses(verdicts[k])})
          /\ C20_Pinned

\* the test [1 == 1, id(1) == 2, (1/0) == 0, " true "] has failed on its second
\* and third assertions, and its fourth was evaluated and passed
C20_Witness ==
    /\ Returned20
    /\ test_case.assertions = <<AssertTrue, AssertFalse, DivZeroEq, AssertPadded>>
    /\ ~test_result[1].passed
    /\ Len(test_result[1].failures) = 2
    /\ verdicts[4].res = Ok(<<" ", "t", "r", "u", "e", " ">>)

-----------------------------------------------------------------------------
(* C27: a function or method call never changes the environment of its
   caller: whatever was evaluated before it, an expression is evaluated in the
   environment of the bindings extended, for each call whose body encloses it,
   by the parameters of that call; so in id(1) + a the right operand does not
   see the parameter a of id. *)

\* env with the parameters bound to the values (of parameters with one name, the last)
WithParams(env, params, vals) ==
    [name \in (DOMAIN env) \cup {params[k] : k \in 1..Len(params)} |->
        IF \E k \in 1..Len(params) : params[k] = name
        THEN vals[CHOOSE k \in 1..Len(params) :
                    params[k] = name /\ \A j \in (k + 1)..Len(params) : params[j] # name]
        ELSE env[name]]

RECURSIVE EnvAt(_)
\* the environment the node at path p is evaluated in, read off the calls that enclose it
EnvAt(p) ==
    IF p = <<>> THEN seed_env(bindings)
    ELSE LET q == SubSeq(p, 1, Len(p) - 1)
             e == NodeAt(expr, q)
         IN  IF p[Len(p)] = 0 /\ e.kind \in {"Call", "MethodCall"}
             THEN WithParams(EnvAt(q), CalleeOf(e).params,
                             [k \in 1..Len(e.args) |-> outcome[Append(q, k)].val])
             ELSE EnvAt(q)

C27_CallerEnvUnchanged ==
    ctrl.mode = "eval" => ctrl.env = EnvAt(ctrl.path)

\* id(1) + a under no bindings: the call has returned 1 and the right operand,
\* evaluated in the caller's environment, does not know a
C27_Witness ==
    /\ HasResult
    /\ expr = EBinary(ECall(n_id, <<Num(1)>>), "Add", EVar(n_a))
    /\ outcome[<<1>>] = Ok(Number(RInt(1)))
    /\ outcome[<<2>>] = Err("Unknown variable '{}'", <<n_a>>)

-----------------------------------------------------------------------------
(* C22: the config store is process-wide and changes only through config_set:
   the only step that changes it is a config_set(k, v) with two arguments,
   which makes v the entry of k and leaves every other entry as it was; no step
   removes a key; config_get(k) returns the entry of k, and on an absent key
   the default when there is one and the empty string otherwise, without
   inserting k; config_has(k) tells whether k has an entry. So a value written
   is what every later read returns, in the same or in a later evaluation,
   until a config_set of the same key replaces it. *)

\* the step that applies the built-in of that name to its evaluated arguments
BuiltinStep(name) ==
    /\ CallArgsDone
    /\ NodeAt(expr, Head(stack).path).name = name
    /\ name \notin DOMAIN Program.functions

StoreKey == Display(Head(stack).out[1])

C22_Writes ==
    config' # config =>
        /\ BuiltinStep(n_config_set) /\ Len(Head(stack).out) = 2
        /\ DOMAIN config' = (DOMAIN config) \cup {StoreKey}
        /\ config'[StoreKey] = Head(stack).out[2]
        /\ \A k \in DOMAIN config : k # StoreKey => config'[k] = config[k]
        /\ ctrl' = Return(Ok(Str(s_ok)), Head(stack).path)

C22_Reads ==
    /\ (BuiltinStep(n_config_set) /\ Len(Head(stack).out) = 2)
          => StoreKey \in DOMAIN config' /\ config'[StoreKey] = Head(stack).out[2]
    /\ (BuiltinStep(n_config_get) /\ Len(Head(stack).out) \in {1, 2}) =>
          /\ config' = config
          /\ ctrl' = Return(Ok(IF StoreKey \in DOMAIN config THEN config[StoreKey]
                               ELSE IF Len(Head(stack).out) = 2 THEN Head(stack).out[2]
                               ELSE Str(<<>>)), Head(stack).path)
    /\ (BuiltinStep(n_config_has) /\ Len(Head(stack).out) = 1) =>
          /\ config' = config
          /\ ctrl' = Return(Ok(Bool(StoreKey \in DOMAIN config)), Head(stack).path)

\* what the eight evaluations of StoreAssertions return
C22_Pinned ==
    (test_result # <<>> /\ test_case.assertions = StoreAssertions) =>
        [k \in 1..8 |-> verdicts[k].res] =
            << Ok(<<>>), Ok(<<"0">>), Ok(Chars("false")), Ok(s_ok),
               Ok(<<"1">>), Ok(Chars("true")), Ok(s_ok), Ok(<<"2">>) >>

C22_StoreChangesOnlyBySet ==
    [][C22_Writes /\ C22_Reads /\ C22_Pinned']_vars

\* the run of StoreAssertions is over: the value written by the fourth evaluation
\* was read by the fifth, and the store holds the value the seventh wrote
C22_Witness ==
    /\ test_result # <<>>
    /\ test_case.assertions = StoreAssertions
    /\ verdicts[5].res = Ok(<<"1">>)
    /\ verdicts[8].res = Ok(<<"2">>)
    /\ config = [key \in {s_k} |-> Number(RInt(2))]

-----------------------------------------------------------------------------
(* C29: when an evaluation fails, the config_set calls it completed before the
   error are not rolled back: no step that returns or passes on an error, and
   no step between two evaluations, changes the store, so the values written
   are what config_get returns in the evaluations that follow; an Err result
   does not tell that the store is unchanged. *)

C29_NoRollback ==
    (ReturnsErr \/ ctrl = Finished) => config' = config

\* what the four evaluations of FailedWriteAssertions return
C29_Pinned ==
    (test_result # <<>> /\ test_case.assertions = FailedWriteAssertions) =>
        /\ [k \in 1..4 |-> verdicts[k].res] =
              << Ok(<<>>), Err("Division by zero", <<>>), Ok(<<"1">>), Ok(Chars("true")) >>
        /\ config = [key \in {s_k} |-> Number(RInt(1))]

C29_FailedWritesStay ==
    [][C29_NoRollback /\ C29_Pinned']_vars

\* the second evaluation failed after its config_set, and the third read the value
C29_Witness ==
    /\ test_result # <<>>
    /\ test_case.assertions = FailedWriteAssertions
    /\ ~verdicts[2].res.ok
    /\ verdicts[1].res = Ok(<<>>)
    /\ verdicts[3].res = Ok(<<"1">>)
    /\ ~test_result[1].passed

-----------------------------------------------------------------------------
(* C30: every evaluation of an expression of the program (no function or
   method of which reaches itself through calls, and which calls no built-in
   that blocks) returns: eval_body_expr ends with a value or with an error,
   and every Repeat evaluates its body at most 10,000 times each time it is
   entered.  eval_function has no guard on the depth of the calls.  A Try
   expression is left out: eval_expr has no step for it (C7). *)

RECURSIVE HasTry(_)
\* a Try node occurs in e
HasTry(e) ==
    CASE e.kind = "Try" -> TRUE
      [] e.kind = "Binary" -> HasTry(e.left) \/ HasTry(e.right)
      [] e.kind = "Repeat" -> HasTry(e.count) \/ HasTry(e.body)
      [] e.kind \in {"Call", "MethodCall"} -> \E k \in 1..Len(e.args) : HasTry(e.args[k])
      [] e.kind = "List" -> \E k \in 1..Len(e.items) : HasTry(e.items[k])
      [] e.kind = "Map" -> \E k \in 1..Len(e.pairs) : HasTry(e.pairs[k][2])
      [] e.kind = "If" ->
            \/ \E k \in 1..Len(e.branches) : HasTry(e.branches[k][1]) \/ HasTry(e.branches[k][2])
            \/ \E k \in 1..Len(e.else_branch) : HasTry(e.else_branch[k])
      [] OTHER -> FALSE

\* the Repeat nodes eval_expr was entered for
RepeatsEntered == {p \in DOMAIN visits : NodeAt(expr, p).kind = "Repeat"}

C30_RepeatBound ==
    \A p \in RepeatsEntered :
        Visited(BodyOf(p)) => visits[BodyOf(p)] <= MaxRepeatSteps * visits[p]

-----------------------------------------------------------------------------
(* C23: under every interleaving of evaluations that run side by side, each
   config_set, config_get and config_has is one step under the Mutex of the
   store: at most one thread holds the Mutex, a thread that is not inside one
   of the three operations does not hold it, while a thread holds it no other
   thread reads or changes the store, and what config_get (config_has)
   observes is the last entry a config_set inserted in full for the key, or
   that there is none. *)

\* the threads between lock() and the drop of the guard
Holders == {t \in DOMAIN threads : threads[t].at \in {"locked", "inserting", "accessed"}}

C23_OneHolder ==
    /\ Cardinality(Holders) <= 1
    /\ \A t \in Holders : mutex = t
    /\ Holders = {} => mutex = Unlocked

\* the inserts for key among the first n
WritesOf(key, n) == {j \in 1..n : writes[j].key = key}

LastWrite(key, n) == writes[CHOOSE j \in WritesOf(key, n) : \A h \in WritesOf(key, n) : h <= j]

C23_WholeValues ==
    \A k \in 1..Len(reads) :
        LET r == reads[k]
            some == WritesOf(r.key, r.seen) # {}
        IN  /\ r.res.ok
            /\ r.name = n_config_has => r.res.val = Bool(some)
            /\ (r.name = n_config_get /\ some) => r.res.val = LastWrite(r.key, r.seen).val
            /\ r.found = some

\* a step leaves the store alone, or is taken by the thread that holds the Mutex
C23_UnderLock ==
    (config' # config \/ reads' # reads \/ writes' # writes) =>
        /\ mutex \in DOMAIN threads /\ mutex' = mutex
        /\ threads'[mutex] # threads[mutex]
        /\ \A u \in DOMAIN threads : u # mutex => threads'[u] = threads[u]

C23_Serialized == [][C23_UnderLock /\ C23_OneHolder' /\ C23_WholeValues']_vars

\* a thread is in the middle of its insert, the other one waits at lock(), and a
\* config_get has returned an entry before
C23_Witness ==
    \E t, u \in DOMAIN threads :
        /\ threads[t].at = "inserting" /\ AtStore(threads[u])
        /\ \E k \in 1..Len(reads) : reads[k].name = n_config_get /\ reads[k].found

-----------------------------------------------------------------------------
(* C28: the Mutex of the store is held for one read or one insert, not for an
   evaluation: a thread that is between two operations does not hold it.  When
   every thread evaluates config_set("k", config_get("k", 0) + 1) on the empty
   store, the entry ends as a number from 1 to the number of threads, and it
   is less than the number of threads exactly when two of the threads read
   the same value: with two threads, 1 instead of 2. *)

C28_LockPerOperation == \A t \in DOMAIN threads : threads[t].at = "run" => mutex # t

AllIncrReturned ==
    /\ threads # <<>>
    /\ \A t \in DOMAIN threads : threads[t].expr = Incr /\ threads[t].result # <<>>

SameRead == \E j, k \in 1..Len(reads) : j # k /\ reads[j].res = reads[k].res

C28_Final ==
    AllIncrReturned =>
        \E n \in 1..MaxThreads :
            /\ config[s_k] = Number(RInt(n))
            /\ n < MaxThreads <=> SameRead

C28_LostUpdate == C28_LockPerOperation /\ C28_Final

\* both threads have read 0 and both have written 1
C28_Witness ==
    /\ AllIncrReturned
    /\ Len(reads) = MaxThreads /\ \A k \in 1..Len(reads) : reads[k].res = Ok(Number(RInt(0)))
    /\ Len(writes) = MaxThreads
    /\ config[s_k] = Number(RInt(1))

-----------------------------------------------------------------------------
(* C24: when build_type_diagnostics has returned, it holds for every function
   of the program with an annotation: if the annotation has another number of
   parameter types than the function has parameters, the diagnostics hold an
   error with scope "function" and the name of the function; if not, the
   diagnostics hold everything the check of its body and of its result type
   gives, whatever the annotations of the other functions are. *)

TypeReturned == type_diagnostics # <<>> /\ ~NoAnnotations

Annotated == (DOMAIN checked_program) \cap (DOMAIN types_cfg[1].functions)

CountDiffers(name) ==
    Len(types_cfg[1].functions[name].params) # Len(checked_program[name].params)

Reported(d) == \E k \in 1..Len(type_diagnostics[1]) : type_diagnostics[1][k] = d

\* the body of name, checked under its annotation
BodyCheck(name) ==
    infer_expr_type(checked_program[name].body,
                    param_env(checked_program[name].params, types_cfg[1].functions[name].params),
                    types_cfg[1].functions)

C24_CountErrors ==
    TypeReturned =>
        \A name \in Annotated :
            CountDiffers(name) =>
                \E k \in 1..Len(type_diagnostics[1]) :
                    LET d == type_diagnostics[1][k]
                    IN  /\ d.kind = "error" /\ d.scope = "function" /\ d.name = name
                        /\ d.message.args = <<Len(types_cfg[1].functions[name].params), name,
                                               Len(checked_program[name].params)>>

C24_OthersChecked ==
    TypeReturned =>
        \A name \in Annotated :
            ~CountDiffers(name) =>
                LET b == BodyCheck(name)
                    declared == types_cfg[1].functions[name].result
                IN  /\ \A k \in 1..Len(b.diags) : Reported(b.diags[k])
                    /\ (declared # <<>> /\ ~is_assignable(b.ty, parse_type_name(declared[1]))) =>
                            \E k \in 1..Len(type_diagnostics[1]) :
                                LET d == type_diagnostics[1][k]
                                IN  /\ d.kind = "error" /\ d.scope = "function" /\ d.name = name
                                    /\ Len(d.message.args) = 2

C24_ParamCount == C24_CountErrors /\ C24_OthersChecked

\* id is annotated with two parameter types and has one parameter; add has the
\* result type string and its body is a number: both are reported
C24_Witness ==
    /\ TypeReturned
    /\ n_id \in Annotated /\ CountDiffers(n_id)
    /\ n_add \in Annotated /\ ~CountDiffers(n_add)
    /\ \E j, k \in 1..Len(type_diagnostics[1]) :
          /\ type_diagnostics[1][j].name = n_id /\ type_diagnostics[1][j].scope = "function"
          /\ type_diagnostics[1][k].name = n_add /\ type_diagnostics[1][k].scope = "function"

-----------------------------------------------------------------------------
(* C25: when build_type_diagnostics has returned, it holds for every function
   with an annotation (of the right parameter count) and every Call in its
   body, wherever it stands, to a function with an annotation: if the number
   of arguments differs from the number of declared parameter types, or an
   argument has an inferred type that is not assignable to the declared one,
   the diagnostics hold an error for the call. *)

RECURSIVE Nodes(_)
\* the nodes of e
Nodes(e) ==
    {e} \cup
    CASE e.kind = "Binary" -> Nodes(e.left) \cup Nodes(e.right)
      [] e.kind = "Repeat" -> Nodes(e.count) \cup Nodes(e.body)
      [] e.kind \in {"Call", "MethodCall"} -> UNION {Nodes(e.args[k]) : k \in 1..Len(e.args)}
      [] e.kind = "List" -> UNION {Nodes(e.items[k]) : k \in 1..Len(e.items)}
      [] e.kind = "Map" -> UNION {Nodes(e.pairs[k][2]) : k \in 1..Len(e.pairs)}
      [] e.kind = "If" ->
            UNION {Nodes(e.branches[k][1]) \cup Nodes(e.branches[k][2]) : k \in 1..Len(e.branches)}
            \cup UNION {Nodes(e.else_branch[k]) : k \in 1..Len(e.else_branch)}
      [] e.kind = "Try" ->
            Nodes(e.try_body) \cup UNION {Nodes(e.catch_body[k]) : k \in 1..Len(e.catch_body)}
            \cup UNION {Nodes(e.finally_body[k]) : k \in 1..Len(e.finally_body)}
      [] OTHER -> {}

\* the call does not fit the annotation of its callee, in the body of name
IllTyped(call, name) ==
    LET annot == types_cfg[1].functions[call.name]
        env == param_env(checked_program[name].params, types_cfg[1].functions[name].params)
    IN  \/ Len(annot.params) # Len(call.args)
        \/ /\ Len(annot.params) = Len(call.args)
           /\ \E k \in 1..Len(call.args) :
                 ~is_assignable(infer_expr_type(call.args[k], env, types_cfg[1].functions).ty,
                                parse_type_name(annot.params[k]))

C25_EveryCallChecked ==
    TypeReturned =>
        \A name \in Annotated :
            ~CountDiffers(name) =>
                \A call \in {n \in Nodes(checked_program[name].body) :
                                n.kind = "Call" /\ n.name \in DOMAIN types_cfg[1].functions} :
                    IllTyped(call, name) =>
                        \E k \in 1..Len(type_diagnostics[1]) :
                            LET d == type_diagnostics[1][k]
                            IN  d.kind = "error" /\ d.scope = "call" /\ d.name = call.name

-----------------------------------------------------------------------------
(* C21: in the bindings the handler of a request hands to eval_body_expr,
   jwt_sub, jwt_scope and jwt_role are each the claim of the verified token of
   the request when the token has that claim, and the empty string when it has
   not or when no token was verified, whatever the query string and the path
   parameters of the request hold. *)

ClaimOr(field) ==
    IF claims_opt # <<>> /\ claims_opt[1][field] # <<>> THEN claims_opt[1][field][1] ELSE <<>>

C21_JwtBindingsFromTokenOnly ==
    (handler \in {"eval", "returned"} /\ visits # <<>>) =>
        /\ bindings[n_jwt_sub] = ClaimOr("sub")
        /\ bindings[n_jwt_scope] = ClaimOr("scope")
        /\ bindings[n_jwt_role] = ClaimOr("role")

-----------------------------------------------------------------------------
(* C26: for an endpoint whose path begins with an entry of
   auth.protected_paths and with no entry of auth.allow_missing_on, the body
   is evaluated only after the bearer token of the request was verified: when
   the request has no bearer token, or one that does not verify, the handler
   returns 401, the body expression is never entered and the request body is
   never validated; when the body expression is entered, the first call of the
   handler was the verification and the claims of the token are held. *)

PrefixOf(p, str) == Len(p) <= Len(str) /\ \A k \in 1..Len(p) : p[k] = str[k]

ProtectedEndpoint ==
    /\ handler # "idle" /\ auth # <<>>
    /\ \E k \in 1..Len(unwrap_or_default(auth[1].protected_paths)) :
          PrefixOf(auth[1].protected_paths[1][k], endpoint.path)
    /\ ~\E k \in 1..Len(unwrap_or_default(auth[1].allow_missing_on)) :
          PrefixOf(auth[1].allow_missing_on[1][k], endpoint.path)

\* the request carries a token that verifies under the configured secret
CarriesGoodToken ==
    /\ auth # <<>> /\ auth[1].jwt_secret # <<>>
    /\ req.authorization \in {<<BearerPrefix \o tok_alice>>, <<BearerPrefix \o tok_plain>>}

Called(name) == \E k \in 1..Len(trace) : trace[k] = name

C26_AuthBeforeBody ==
    ProtectedEndpoint =>
        /\ ~CarriesGoodToken =>
              /\ visits = <<>> /\ ~Called("respond") /\ ~Called("validate_and_sanitize_body")
              /\ handler = "returned" => response[1].status = 401
        /\ visits # <<>> =>
              /\ CarriesGoodToken
              /\ trace[1] = "verify_jwt_if_required"
              /\ claims_opt = <<decode(trim(SliceFrom(req.authorization[1], Len(BearerPrefix)))).val>>

\* a POST to a protected path with a schema and a token that does not verify
\* was answered with 401
C26_Witness ==
    /\ ProtectedEndpoint /\ ~CarriesGoodToken
    /\ endpoint.method = "Post" /\ schema # <<>>
    /\ req.authorization = <<BearerPrefix \o tok_bad>>
    /\ handler = "returned" /\ response[1].status = 401

====
